---- MODULE Spec2Model ----
(***************************************************************************)
(* video-capture-script-mcp: frame extraction (frame-extractor.ts), the    *)
(* Hunyuan API client (hunyuan-client.ts) and the orchestration of both    *)
(* (video-processor.ts), as a state machine.                               *)
(*                                                                         *)
(* Every `await` of the source is a suspension point; one action models    *)
(* the code that runs from one suspension point to the next.  The external *)
(* collaborators (ffprobe, ffmpeg, the file system, the remote API) are    *)
(* the environment: each of their answers is a nondeterministic choice.    *)
(*                                                                         *)
(* Numbers: durations and timestamps are exact rationals <<num, den>>;     *)
(* IEEE-754 rounding of `duration / (maxFrames + 1)` is not modelled.      *)
(***************************************************************************)
EXTENDS Integers, Sequences, FiniteSets, TLC

(* ------------------------------ bounds -------------------------------- *)
MaxFrames == 4          \* largest maxFrames a caller passes to extractFrames
MaxVideoFrames == 2     \* largest maxFrames a caller passes to analyzeVideo / generateVideoScript
MaxDuration == 2        \* largest duration (in seconds) ffprobe reports
MaxBatch == 3           \* longest imagePaths given to analyzeImageBatch
MaxSingle == 5          \* longest imagePaths given to analyzeImagesInSingleRequest
MaxUsage == 2           \* largest Usage.TotalTokens the API reports

(* ------------------------- program constants -------------------------- *)
DefaultDuration == 60   \* detectKeyframes / detectSceneChanges fallback
AbortThreshold == 3     \* failureCount >= 3 && successCount === 0
MaxImageBytes == 5242880 \* fileSizeMB > 5, fileSizeMB = length / (1024 * 1024)
SingleRequestCap == 4   \* imagePaths.slice(0, 4)
CostCap == 4            \* Math.min(maxFrames, 4)

Strategies == {"uniform", "keyframe", "scene_change"}

(* --------------------------- rational numbers ------------------------- *)
\* a JavaScript number, kept exact: <<numerator, denominator>>, denominator > 0
RatLess(a, b) == a[1] * b[2] < b[1] * a[2]
RatEq(a, b) == a[1] * b[2] = b[1] * a[2]
Zero == <<0, 1>>

VARIABLES
    xpc,            \* extractFrames: position in the call
    xerr,           \* extractFrames: which throw ended the call ("" = none)
    maxFrames,      \* options.maxFrames
    strategy,       \* options.strategy
    dirOps,         \* file-system operations made by ensureOutputDir
    probeCalls,     \* ffmpeg.ffprobe invocations of this call
    duration,       \* videoInfo.duration of getVideoInfo (0 = no videoInfo)
    selDuration,    \* duration handed to generateUniformTimestamps (0 = none)
    timestamps,     \* const timestamps
    frameIdx,       \* loop variable i of the capture loop, 1-based; 0 = no capture in flight
    framePaths,     \* const framePaths
    successCount,
    failureCount,
    outcomes,       \* history: how each capture invoked so far settled
    abandoned,      \* captures whose timer fired while their ffmpeg process runs on
    written,        \* history: captures whose ffmpeg process wrote its output file
    cop,            \* HunyuanClient: the public method running ("" = none)
    cpc,            \* HunyuanClient: position in that method
    secretId,       \* this.secretId ("" = undefined)
    secretKey,      \* this.secretKey ("" = undefined)
    imagePaths,     \* the imagePaths argument (analyzeImage: the one imagePath)
    batchIdx,       \* position in imagePaths of the image analyzeImage works on
                    \*   (loop variable i of analyzeImageBatch, 1-based)
    results,        \* const results of analyzeImageBatch
    reads,          \* imageToBase64 calls of this method: position in imagePaths ->
                    \*   Reading, Missing or FileRead(size)
    requests,       \* history: the fetch calls issued, in order
    events,         \* history: fetch calls and elapsed delays, in order
    cresult,        \* what the method returned (<<>> = nothing)
    cerror,         \* the Error the method threw to its caller (NoError = none)
    prompt,         \* the prompt argument of generateText
    entry,          \* the entry point called
    opc,            \* VideoProcessor: position in analyzeVideo / generateVideoScript
    videoPath,      \* the videoPath argument ("" = missing)
    optMaxFrames,   \* options.maxFrames of analyzeVideo / generateVideoScript
    optClient,      \* options.hunyuanClient was given
    optCredentials, \* options.secretId and options.secretKey were given
    cleanup,        \* options.cleanup
    pending,        \* how the try block ended, while its finally block runs
    cleanupCalls,   \* history: invocations of cleanupFrames
    cleanupIdx,     \* cleanupFrames: position in its framePaths argument
    unlinked,       \* history: the paths fs.unlink was called on, in order
    unlinkFailures, \* cleanupFrames: let failureCount
    analysisResult, \* generateVideoScript: let analysisResult
    usage,          \* generateVideoScript: the usage object returned
    env,            \* process.env: TENCENT_SECRET_ID, TENCENT_SECRET_KEY, TENCENT_REGION
    options,        \* the options main() parsed from process.argv
    server,         \* VideoMCPServer: this.secretId, this.secretKey, this.region
    spc,            \* VideoMCPServer: position of the CallTool request handler
    toolName,       \* request.params.name
    args,           \* request.params.arguments
    final,          \* finalSecretId, finalSecretKey, finalRegion of the handler
    reply,          \* what the request handler returned
    signing,        \* the two signing invocations compared: their inputs
    signed,         \* ... and the headers each one put on its request
    now,            \* the clock: Math.floor(Date.now() / 1000)
    validated,      \* history: the pair validateCredentials accepted in the call in flight
    sent            \* history: per fetch call its headers and body, the clock and
                    \*   the validated pair of the call that issued it

xvars == <<xpc, xerr, maxFrames, strategy, dirOps, probeCalls, duration, selDuration,
           timestamps, frameIdx, framePaths, successCount, failureCount, outcomes,
           abandoned, written>>

cvars == <<cop, cpc, secretId, secretKey, imagePaths, batchIdx, results, reads, requests,
           events, cresult, cerror, prompt>>

ovars == <<entry, opc, videoPath, optMaxFrames, optClient, optCredentials, cleanup, pending,
           cleanupCalls, cleanupIdx, unlinked, unlinkFailures, analysisResult, usage>>

svars == <<env, options, server, spc, toolName, args, final, reply>>

gvars == <<signing, signed>>

rvars == <<now, validated, sent>>

vars == <<xvars, cvars, ovars, svars, gvars, rvars>>

(* ------------------- hunyuan-client.ts: thrown errors ----------------- *)
\* result.Response.Error.Code values the API answers with ("InternalError"
\* stands for every code the client has no branch for)
ErrorCodes == {"FailedOperation.ServiceNotActivated", "AuthFailure.SignatureFailure",
               "LimitExceeded.QPSLimitExceeded", "LimitExceeded", "InvalidParameter",
               "ResourceNotFound", "InternalError"}

\* an Error of the client: what made it, the branch of the if / else-if chain
\* that built its message ("" = not an error envelope), the envelope's code and
\* which of the envelope's fields the message text carries
ClientError(kind, class, code, carries) ==
    [kind |-> kind, class |-> class, code |-> code, carries |-> carries]

NoError == ClientError("none", "", "", {})

\* the branch of the errorCode chain taken by each method
ErrorClass(op, code) ==
    IF code = "FailedOperation.ServiceNotActivated" THEN "serviceNotActivated"
    ELSE IF code = "AuthFailure.SignatureFailure" THEN "signatureFailure"
    ELSE IF code = "LimitExceeded" THEN "rateLimit"
    ELSE IF code = "LimitExceeded.QPSLimitExceeded" /\ op # "analyzeImagesInSingleRequest"
        THEN "rateLimit"
    ELSE IF code = "InvalidParameter" THEN "invalidParameter"
    ELSE IF code = "ResourceNotFound" /\ op = "analyzeImage" THEN "resourceNotFound"
    ELSE "unknown"

\* the envelope fields interpolated into the message: analyzeImage and
\* generateText start every message with code, message and requestId;
\* analyzeImagesInSingleRequest builds one message per branch
ErrorCarries(op, code) ==
    IF op # "analyzeImagesInSingleRequest" THEN {"code", "message", "requestId"}
    ELSE IF ErrorClass(op, code) = "serviceNotActivated" THEN {}
    ELSE IF ErrorClass(op, code) = "unknown" THEN {"code", "message"}
    ELSE {"message"}

\* validateCredentials throws; imageToBase64 throws
CredentialsError == ClientError("credentials", "", "", {})
EncodingError == ClientError("encoding", "", "", {})

\* throw new Error(...) for result.Response.Error
EnvelopeError(op, code) ==
    ClientError("envelope", ErrorClass(op, code), code, ErrorCarries(op, code))

\* a prompt: the template it is built from and the analysis text interpolated
Prompt(template, analysis) == [template |-> template, analysis |-> analysis]
NoPrompt == Prompt("", "")
CallerPrompt == Prompt("caller", "")

(* ------------------------- frame-extractor.ts ------------------------- *)
\* the timestamps of a loop `for (i = first; i <= maxFrames; i++) push(interval * i)`
\* with interval = d / divisor
UniformFrom(d, n, first, divisor) ==
    [k \in 1..(IF n >= first THEN n - first + 1 ELSE 0) |->
        <<d * (k + first - 1), divisor>>]

\* (mutation of generateUniformTimestamps: interval = duration / maxFrames)
generateUniformTimestampsNoGap(d, n) == UniformFrom(d, n, 1, n)

\* interval = duration / (maxFrames + 1); timestamps = [interval * i : i = 1..maxFrames]
generateUniformTimestamps(d, n) == UniformFrom(d, n, 1, n + 1)

\* path.join(outputDir, `${videoName}_frame_${i + 1}_${timestamp.toFixed(2)}s.jpg`)
FramePath(k, ts) == [index |-> k, timestamp |-> ts]

\* this.secretId and this.secretKey, as one value
Pair(id, key) == [secretId |-> id, secretKey |-> key]
NoPair == Pair("", "")

NoRequests ==
    /\ now = 0
    /\ validated = NoPair
    /\ sent = <<>>

NoClient ==
    /\ NoRequests
    /\ cop = ""
    /\ cpc = "idle"
    /\ secretId = ""
    /\ secretKey = ""
    /\ imagePaths = <<>>
    /\ batchIdx = 0
    /\ results = <<>>
    /\ reads = <<>>
    /\ requests = <<>>
    /\ events = <<>>
    /\ cresult = <<>>
    /\ cerror = NoError
    /\ prompt = NoPrompt

NoVideoProcessor ==
    /\ opc = "idle"
    /\ videoPath = "video.mp4"
    /\ optMaxFrames = 0
    /\ optClient = FALSE
    /\ optCredentials = FALSE
    /\ cleanup = FALSE
    /\ pending = ""
    /\ cleanupCalls = 0
    /\ cleanupIdx = 0
    /\ unlinked = <<>>
    /\ unlinkFailures = 0
    /\ analysisResult = <<>>
    /\ usage = <<>>

\* a string whose characters matter is a sequence of characters; Unset is
\* undefined or '' (both falsy)
Unset == <<>>

\* secretId, secretKey and region, from one source
Credentials(id, key, region) == [secretId |-> id, secretKey |-> key, region |-> region]
NoCredentials == Credentials(Unset, Unset, Unset)

\* request.params.arguments: the required path argument and the credentials
Arguments(path, id, key, region) ==
    [videoPath |-> path, secretId |-> id, secretKey |-> key, region |-> region]

\* an Error reaching the request handler's catch: what threw it and its message
ToolError(kind, text) == [kind |-> kind, text |-> text]

\* the object the request handler returns: { content: [{ type: 'text', text }] }
ToolAnswer(kind, error, text) == [kind |-> kind, error |-> error, text |-> text]
NoAnswer == ToolAnswer("none", ToolError("none", <<>>), <<>>)

NoServer ==
    /\ env = NoCredentials
    /\ options = NoCredentials
    /\ server = NoCredentials
    /\ spc = "notStarted"
    /\ toolName = ""
    /\ args = Arguments(Unset, Unset, Unset, Unset)
    /\ final = NoCredentials
    /\ reply = NoAnswer

\* the inputs of generateAuthorization and of the headers of the fetch call
SigningInput(id, key, endpoint, region, timestamp, params) ==
    [secretId |-> id, secretKey |-> key, endpoint |-> endpoint, region |-> region,
     timestamp |-> timestamp, params |-> params]

NoSigning ==
    /\ signing = <<>>
    /\ signed = <<>>

NoExtraction ==
    /\ xpc = "NotCalled"
    /\ xerr = ""
    /\ maxFrames = 0
    /\ strategy = "uniform"
    /\ dirOps = 0
    /\ probeCalls = 0
    /\ duration = 0
    /\ selDuration = 0
    /\ timestamps = <<>>
    /\ frameIdx = 0
    /\ framePaths = <<>>
    /\ successCount = 0
    /\ failureCount = 0
    /\ outcomes = <<>>
    /\ abandoned = {}
    /\ written = {}

InitExtract ==
    /\ NoServer
    /\ NoSigning
    /\ NoClient
    /\ NoVideoProcessor
    /\ entry = "extractFrames"
    /\ xpc = "Idle"
    /\ xerr = ""
    /\ maxFrames \in -1..MaxFrames
    /\ strategy \in Strategies
    /\ dirOps = 0
    /\ probeCalls = 0
    /\ duration = 0
    /\ selDuration = 0
    /\ timestamps = <<>>
    /\ frameIdx = 0
    /\ framePaths = <<>>
    /\ successCount = 0
    /\ failureCount = 0
    /\ outcomes = <<>>
    /\ abandoned = {}
    /\ written = {}

\* (mutation of ExtractThrow: the catch at the end returns framePaths)
ExtractThrowReturnsPaths(why) ==
    /\ xpc' = "Done"
    /\ xerr' = why
    /\ frameIdx' = 0

\* throw out of extractFrames (the catch at the end rethrows)
ExtractThrow(why) ==
    /\ xpc' = "Failed"
    /\ xerr' = why
    /\ frameIdx' = 0

\* timestamps are known: the length check, then the first pass of the loop
\* up to its `await this.extractFrameAtTimestamp(...)`
BeginCaptures(ts, d) ==
    /\ timestamps' = ts
    /\ selDuration' = d
    /\ IF Len(ts) = 0
       THEN ExtractThrow("noTimestamps")
       ELSE /\ xpc' = "ExtractingFrame"
            /\ xerr' = ""
            /\ frameIdx' = 1

\* extractFrames up to `await this.ensureOutputDir(outputDir)` and that call:
\* fs.access, and fs.mkdir when access fails; mkdir may fail too
EnsureOutputDir ==
    /\ xpc = "Idle"
    /\ \E r \in {"exists", "created", "mkdirFailed"} :
        /\ dirOps' = IF r = "exists" THEN 1 ELSE 2
        /\ IF r = "mkdirFailed"
           THEN ExtractThrow("mkdir")
           ELSE /\ xpc' = "ProbingMetadata"
                /\ xerr' = ""
                /\ frameIdx' = 0
    /\ UNCHANGED <<maxFrames, strategy, probeCalls, duration, selDuration, timestamps,
                   framePaths, successCount, failureCount, outcomes, abandoned, written>>
    /\ UNCHANGED <<cvars, ovars>>
    /\ UNCHANGED <<svars, gvars, rvars>>

\* getVideoInfo rejects: ffprobe error, no metadata/streams, no video stream,
\* or metadata.format.duration || 0 is <= 0
GetVideoInfoFails ==
    /\ xpc = "ProbingMetadata"
    /\ \E why \in {"ffprobeError", "noStreams", "noVideoStream", "badDuration"} :
        /\ probeCalls' = probeCalls + 1
        /\ ExtractThrow("probe")
    /\ UNCHANGED <<maxFrames, strategy, dirOps, duration, selDuration, timestamps,
                   framePaths, successCount, failureCount, outcomes, abandoned, written>>
    /\ UNCHANGED <<cvars, ovars>>
    /\ UNCHANGED <<svars, gvars, rvars>>

\* getVideoInfo resolves with duration d > 0; then the maxFrames check and
\* calculateTimestamps, which for keyframe / scene_change suspends on a second ffprobe
GetVideoInfo ==
    /\ xpc = "ProbingMetadata"
    /\ \E d \in 1..MaxDuration :
        /\ probeCalls' = probeCalls + 1
        /\ duration' = d
        /\ IF maxFrames <= 0
           THEN /\ ExtractThrow("validation")
                /\ UNCHANGED <<timestamps, selDuration>>
           ELSE IF strategy \in {"keyframe", "scene_change"}
           THEN /\ xpc' = "SelectingTimestamps"
                /\ UNCHANGED <<xerr, frameIdx, timestamps, selDuration>>
           ELSE BeginCaptures(generateUniformTimestamps(d, maxFrames), d)
    /\ UNCHANGED <<maxFrames, strategy, dirOps, framePaths, successCount, failureCount,
                   outcomes, abandoned, written>>
    /\ UNCHANGED <<cvars, ovars>>
    /\ UNCHANGED <<svars, gvars, rvars>>

\* the ffprobe callback of detectKeyframes / detectSceneChanges:
\* err -> 60; otherwise metadata.format.duration || 60
StrategyDuration(err, d) == IF err \/ d = 0 THEN DefaultDuration ELSE d

detectKeyframes ==
    /\ xpc = "SelectingTimestamps"
    /\ strategy = "keyframe"
    /\ \E err \in BOOLEAN, d \in 0..MaxDuration :
        /\ probeCalls' = probeCalls + 1
        /\ BeginCaptures(generateUniformTimestamps(StrategyDuration(err, d), maxFrames),
                         StrategyDuration(err, d))
    /\ UNCHANGED <<maxFrames, strategy, dirOps, duration, framePaths, successCount,
                   failureCount, outcomes, abandoned, written>>
    /\ UNCHANGED <<cvars, ovars>>
    /\ UNCHANGED <<svars, gvars, rvars>>

detectSceneChanges ==
    /\ xpc = "SelectingTimestamps"
    /\ strategy = "scene_change"
    /\ \E err \in BOOLEAN, d \in 0..MaxDuration :
        /\ probeCalls' = probeCalls + 1
        /\ BeginCaptures(generateUniformTimestamps(StrategyDuration(err, d), maxFrames),
                         StrategyDuration(err, d))
    /\ UNCHANGED <<maxFrames, strategy, dirOps, duration, framePaths, successCount,
                   failureCount, outcomes, abandoned, written>>
    /\ UNCHANGED <<cvars, ovars>>
    /\ UNCHANGED <<svars, gvars, rvars>>

\* (mutation of NextPass: returns without the framePaths.length === 0 check)
NextPassNoEmptyCheck(paths) ==
    IF frameIdx < Len(timestamps)
    THEN /\ frameIdx' = frameIdx + 1
         /\ UNCHANGED <<xpc, xerr>>
    ELSE /\ xpc' = "Done"
         /\ frameIdx' = 0
         /\ UNCHANGED xerr

\* the loop after pass frameIdx: the next pass up to its await, or, after the
\* last pass, the framePaths.length === 0 check and the return
NextPass(paths) ==
    IF frameIdx < Len(timestamps)
    THEN /\ frameIdx' = frameIdx + 1
         /\ UNCHANGED <<xpc, xerr>>
    ELSE IF Len(paths) = 0
    THEN ExtractThrow("allFailed")
    ELSE /\ xpc' = "Done"
         /\ frameIdx' = 0
         /\ UNCHANGED xerr

\* ffmpeg 'end': extractFrameAtTimestamp resolves; push the path, successCount++
CaptureEnd ==
    /\ xpc = "ExtractingFrame"
    /\ outcomes' = Append(outcomes, "end")
    /\ framePaths' = Append(framePaths, FramePath(frameIdx, timestamps[frameIdx]))
    /\ successCount' = successCount + 1
    /\ written' = written \cup {frameIdx}
    /\ NextPass(framePaths')
    /\ UNCHANGED <<maxFrames, strategy, dirOps, probeCalls, duration, selDuration,
                   timestamps, failureCount, abandoned>>
    /\ UNCHANGED <<cvars, ovars>>
    /\ UNCHANGED <<svars, gvars, rvars>>

\* (mutation of AbortsLoop: the successCount === 0 test dropped)
AbortsLoopIgnoringSuccess(failures, successes) == failures >= AbortThreshold

\* if (failureCount >= 3 && successCount === 0) throw
AbortsLoop(failures, successes) == failures >= AbortThreshold /\ successes = 0

\* (mutation of CaptureRejected: the path is pushed although the capture failed)
CaptureRejectedKeepsPath(how) ==
    /\ xpc = "ExtractingFrame"
    /\ outcomes' = Append(outcomes, how)
    /\ failureCount' = failureCount + 1
    /\ framePaths' = Append(framePaths, FramePath(frameIdx, timestamps[frameIdx]))
    /\ IF AbortsLoop(failureCount', successCount)
       THEN ExtractThrow("abort")
       ELSE NextPass(framePaths')
    /\ UNCHANGED <<maxFrames, strategy, dirOps, probeCalls, duration, selDuration,
                   timestamps, successCount, abandoned, written>>
    /\ UNCHANGED <<cvars, ovars>>
    /\ UNCHANGED <<svars, gvars, rvars>>

\* extractFrameAtTimestamp rejected, then the catch block of the loop:
\* failureCount++, then the abort check.  The timer's callback only rejects:
\* the ffmpeg process it gave up on is left running
CaptureRejected(how) ==
    /\ xpc = "ExtractingFrame"
    /\ outcomes' = Append(outcomes, how)
    /\ failureCount' = failureCount + 1
    /\ abandoned' = IF how = "timeout" THEN abandoned \cup {frameIdx} ELSE abandoned
    /\ IF AbortsLoop(failureCount', successCount)
       THEN ExtractThrow("abort")
       ELSE NextPass(framePaths)
    /\ UNCHANGED <<maxFrames, strategy, dirOps, probeCalls, duration, selDuration,
                   timestamps, framePaths, successCount, written>>
    /\ UNCHANGED <<cvars, ovars>>
    /\ UNCHANGED <<svars, gvars, rvars>>

\* ffmpeg 'error': extractFrameAtTimestamp rejects
CaptureError == CaptureRejected("error")

\* (mutation of CaptureTimeout: no timer is armed)
CaptureTimeoutNotArmed == FALSE /\ CaptureRejected("timeout")

\* the 30 s timer fires first: extractFrameAtTimestamp rejects
CaptureTimeout == CaptureRejected("timeout")

\* an ffmpeg process abandoned at its timeout ends: 'end' (the output file is
\* written) or 'error'; clearTimeout, resolve and reject have no effect on
\* the settled promise
AbandonedCaptureSettles ==
    /\ \E k \in abandoned, end \in BOOLEAN :
        /\ abandoned' = abandoned \ {k}
        /\ written' = IF end THEN written \cup {k} ELSE written
    /\ UNCHANGED <<xpc, xerr, maxFrames, strategy, dirOps, probeCalls, duration, selDuration,
                   timestamps, frameIdx, framePaths, successCount, failureCount, outcomes>>
    /\ UNCHANGED <<cvars, ovars>>
    /\ UNCHANGED <<svars, gvars, rvars>>

NextFrames ==
    \/ EnsureOutputDir
    \/ GetVideoInfoFails
    \/ GetVideoInfo
    \/ detectKeyframes
    \/ detectSceneChanges
    \/ CaptureEnd
    \/ CaptureError
    \/ CaptureTimeout

\* the call and the processes it left behind
NextExtraction ==
    \/ NextFrames
    \/ AbandonedCaptureSettles

SpecFrames == InitExtract /\ [][NextExtraction]_vars

\* the timer of a capture in flight fires unless the capture settles first
SpecFramesTimed == InitExtract /\ [][NextExtraction]_vars /\ WF_vars(CaptureTimeout)

(* ---------------------- hunyuan-client.ts: signing -------------------- *)
\* crypto.createHash('sha256').update(message).digest('hex'), kept symbolic:
\* different messages have different digests
Sha256Hex(message) == [sha256 |-> message]

\* crypto.createHmac('sha256', key).update(message).digest(encoding), symbolic
Hmac(key, message, encoding) == [key |-> key, message |-> message, digest |-> encoding]

SecondsPerDay == 86400

\* the UTC calendar day of `new Date(ms)`, from the days since 1970-01-01
\* (what getUTCFullYear, getUTCMonth() + 1 and getUTCDate then return)
UTCDay(days) ==
    LET z == days + 719468
        era == z \div 146097
        doe == z - era * 146097
        yoe == (doe - doe \div 1460 + doe \div 36524 - doe \div 146096) \div 365
        doy == doe - (365 * yoe + yoe \div 4 - yoe \div 100)
        mp == (5 * doy + 2) \div 153
        month == IF mp < 10 THEN mp + 3 ELSE mp - 9
    IN  [year |-> yoe + era * 400 + (IF month <= 2 THEN 1 ELSE 0),
         month |-> month,
         day |-> doy - (153 * mp + 2) \div 5 + 1]

\* String(n).padStart(2, '0'), as its two digits
padStart2(n) == IF n < 10 THEN <<0, n>> ELSE <<n \div 10, n % 10>>

\* `${year}-${month}-${day}` of a calendar day
DateString(date) ==
    <<date.year, "-">> \o padStart2(date.month) \o <<"-">> \o padStart2(date.day)

\* (mutation of getDate: new Date(timestamp), the seconds taken for milliseconds)
getDateOfMilliseconds(timestamp) == DateString(UTCDay((timestamp \div 1000) \div SecondsPerDay))

\* getDate: new Date(timestamp * 1000), formatted in UTC
getDate(timestamp) == DateString(UTCDay(timestamp \div SecondsPerDay))

Algorithm == "TC3-HMAC-SHA256"
SignedHeaders == "content-type;host;x-tc-action;x-tc-timestamp;x-tc-version"

\* canonicalHeaders: literal text but for this.endpoint and the timestamp
CanonicalHeaders(endpoint, timestamp) ==
    <<"content-type:application/json; charset=utf-8", "host:", endpoint,
      "x-tc-action:chatcompletions", "x-tc-timestamp:", timestamp,
      "x-tc-version:2023-09-01">>

\* `${date}/hunyuan/tc3_request`
CredentialScope(date) == <<date, "/", "hunyuan", "/", "tc3_request">>

\* step 1 and step 2 of generateAuthorization
StringToSign(endpoint, timestamp, params) ==
    <<Algorithm, timestamp, CredentialScope(getDate(timestamp)),
      Sha256Hex(<<"POST", "/", "", CanonicalHeaders(endpoint, timestamp), SignedHeaders,
                  Sha256Hex(params)>>)>>

\* step 3: secretDate, secretService, secretSigning, signature
Signature(secret, date, toSign) ==
    Hmac(Hmac(Hmac(Hmac(<<"TC3", secret>>, date, "binary"), "hunyuan", "binary"),
              "tc3_request", "binary"),
         toSign, "hex")

\* step 4: the authorization string, as its interpolated parts
generateAuthorization(id, secret, endpoint, timestamp, params) ==
    <<Algorithm, " Credential=", id, "/", CredentialScope(getDate(timestamp)),
      ", SignedHeaders=", SignedHeaders, ", Signature=",
      Signature(secret, getDate(timestamp), StringToSign(endpoint, timestamp, params))>>

\* the headers option of the fetch call
RequestHeaders(in) ==
    [Authorization |-> generateAuthorization(in.secretId, in.secretKey, in.endpoint,
                                             in.timestamp, in.params),
     ContentType |-> "application/json; charset=utf-8",
     Host |-> in.endpoint,
     Action |-> "ChatCompletions",
     Timestamp |-> in.timestamp,
     Version |-> "2023-09-01",
     Region |-> in.region]

(* -------------------------- hunyuan-client.ts ------------------------- *)
PathIds == {"a.jpg", "b.png"}
Sizes == {MaxImageBytes, MaxImageBytes + 1}     \* imageBuffer.length
Reading == [state |-> "reading", bytes |-> 0]   \* imageToBase64 has not settled
Missing == [state |-> "missing", bytes |-> 0]   \* fs.access / fs.readFile failed
FileRead(size) == [state |-> "read", bytes |-> size]
ReadAnswers == {Missing} \cup {FileRead(size) : size \in Sizes}
ClientOps == {"analyzeImage", "analyzeImageBatch", "analyzeImagesInSingleRequest",
              "generateText"}
FetchErrors == {"transport", "httpStatus", "noChoice"} \cup ErrorCodes
ApiContents == {"a scene", "a person"}           \* choice.Message.Content

Min(a, b) == IF a < b THEN a ELSE b

\* validateCredentials: !this.secretId || !this.secretKey
CredentialsMissing == secretId = "" \/ secretKey = ""

\* config?.endpoint || 'hunyuan.tencentcloudapi.com', config?.region || 'ap-beijing'
Endpoint == "hunyuan.tencentcloudapi.com"
ClientRegion == "ap-beijing"

\* (mutation of CurrentTimestamp: the timestamp of the request before is kept)
EarlierTimestamp == IF sent = <<>> THEN now ELSE sent[Len(sent)].headers.Timestamp

\* const timestamp = Math.floor(Date.now() / 1000)
CurrentTimestamp == now

\* (mutation of TooLarge: the size check dropped)
TooLargeNever(size) == FALSE

\* fileSizeMB > 5
TooLarge(size) == size > MaxImageBytes

\* imageToBase64 throws on this answer of the file system
EncodeFails(answer) == answer.state = "missing" \/ TooLarge(answer.bytes)

\* `data:${mimeType};base64,${base64}`: the content read from that path
DataUri(path, size) == [path |-> path, bytes |-> size]

TextPart == [Type |-> "text", Url |-> DataUri("", 0)]
ImagePart(uri) == [Type |-> "image_url", Url |-> uri]

\* (mutation of limitedPaths: no slice)
limitedPathsUncapped(paths) == paths

\* imagePaths.slice(0, 4)
limitedPaths(paths) == SubSeq(paths, 1, Min(Len(paths), SingleRequestCap))

\* params of analyzeImage / analyzeImagesInSingleRequest, as sent by fetch
VisionRequest(op, contents) ==
    [op |-> op, Model |-> "hunyuan-vision", Contents |-> contents, Content |-> NoPrompt]

\* params of generateText
TextRequest(text) == [op |-> "generateText", Model |-> "hunyuan-lite", Contents |-> <<>>,
                      Content |-> text]

\* the object analyzeImage returns; `image` records the path it was called with
Analysis(path, content, total) == [content |-> content, totalTokens |-> total, image |-> path]

\* { content: `❌ 分析失败: ${errorMessage}`, usage: { ..., totalTokens: 0 } }
FailureMarker(path) == [content |-> "failed", totalTokens |-> 0, image |-> path]

\* timestamp, generateAuthorization(params, timestamp) and the fetch call
\* with those headers and JSON.stringify(params) as body; `pair` is what
\* validateCredentials saw in this call
Fetch(params, pair) ==
    /\ requests' = Append(requests, params)
    /\ events' = Append(events, "request")
    /\ sent' = Append(sent,
            [headers |-> RequestHeaders(SigningInput(secretId, secretKey, Endpoint,
                                                     ClientRegion, CurrentTimestamp, params)),
             body |-> params,
             clock |-> now,
             validated |-> pair])

InitClient ==
    /\ NoServer
    /\ NoSigning
    /\ NoRequests
    /\ xpc = "Idle" /\ xerr = "" /\ maxFrames = 1 /\ strategy = "uniform"
    /\ dirOps = 0 /\ probeCalls = 0 /\ duration = 0 /\ selDuration = 0
    /\ timestamps = <<>> /\ frameIdx = 0 /\ framePaths = <<>>
    /\ successCount = 0 /\ failureCount = 0 /\ outcomes = <<>>
    /\ abandoned = {} /\ written = {}
    /\ NoVideoProcessor
    /\ entry = "client"
    /\ cop \in ClientOps
    /\ cpc = "idle"
    /\ secretId \in {"", "AKIDexample"}
    /\ secretKey \in {"", "key"}
    /\ \E n \in 0..(IF MaxSingle > MaxBatch THEN MaxSingle ELSE MaxBatch) :
        /\ imagePaths \in [1..n -> PathIds]
        /\ cop = "analyzeImage" => n = 1
        /\ cop = "analyzeImageBatch" => n <= MaxBatch
        /\ cop = "analyzeImagesInSingleRequest" => n <= MaxSingle
        /\ cop = "generateText" => n = 0
    /\ batchIdx = 0
    /\ results = <<>>
    /\ reads = <<>>
    /\ requests = <<>>
    /\ events = <<>>
    /\ cresult = <<>>
    /\ cerror = NoError
    /\ prompt = IF cop = "generateText" THEN CallerPrompt ELSE NoPrompt

\* (mutation of BatchCatch: the error is rethrown, ending the batch)
BatchCatchRethrows ==
    /\ cpc' = "thrown"
    /\ UNCHANGED <<results, batchIdx, cresult>>

\* the catch block of analyzeImageBatch: push the failure marker, go on
\* with the next pass (no delay on this path)
BatchCatch ==
    /\ results' = Append(results, FailureMarker(imagePaths[batchIdx]))
    /\ batchIdx' = batchIdx + 1
    /\ cpc' = "loop"
    /\ UNCHANGED cresult

\* analyzeImage throws err (its catch rethrows) to its caller
ImageThrows(err) ==
    IF cop = "analyzeImage"
    THEN /\ cpc' = "thrown"
         /\ cerror' = err
         /\ UNCHANGED <<results, batchIdx, cresult>>
    ELSE /\ BatchCatch
         /\ UNCHANGED cerror

\* analyzeImage returns r to its caller; in the batch: push, then the 1 s delay
\* unless this was the last image
ImageReturns(r) ==
    IF cop = "analyzeImage"
    THEN /\ cpc' = "returned"
         /\ cresult' = r
         /\ UNCHANGED <<results, batchIdx>>
    ELSE /\ results' = Append(results, r)
         /\ UNCHANGED cresult
         /\ IF batchIdx < Len(imagePaths)
            THEN cpc' = "delay" /\ UNCHANGED batchIdx
            ELSE cpc' = "loop" /\ batchIdx' = batchIdx + 1

\* analyzeImage up to `await this.imageToBase64(imagePath)`, for the image at position k
AnalyzeImageBegins(k) ==
    IF CredentialsMissing
    THEN ImageThrows(CredentialsError) /\ UNCHANGED <<reads, validated>>
    ELSE /\ cpc' = "encoding"
         /\ reads' = (k :> Reading) @@ reads
         /\ validated' = Pair(secretId, secretKey)
         /\ UNCHANGED <<results, batchIdx, cresult, cerror>>

\* analyzeImage called directly, up to `await this.imageToBase64(imagePath)`
AnalyzeImageCall ==
    /\ cop = "analyzeImage"
    /\ cpc = "idle"
    /\ IF CredentialsMissing
       THEN /\ cpc' = "thrown"
            /\ cerror' = CredentialsError
            /\ UNCHANGED <<batchIdx, reads, validated>>
       ELSE /\ cpc' = "encoding"
            /\ validated' = Pair(secretId, secretKey)
            /\ batchIdx' = 1
            /\ reads' = (1 :> Reading)
            /\ UNCHANGED cerror
    /\ UNCHANGED <<cop, prompt, secretId, secretKey, imagePaths, results, requests, events, cresult>>
    /\ UNCHANGED <<xvars, ovars>>
    /\ UNCHANGED <<svars, gvars, now, sent>>

\* analyzeImageBatch called: results = [], the loop is entered
AnalyzeImageBatchCall ==
    /\ cop = "analyzeImageBatch"
    /\ cpc = "idle"
    /\ cpc' = "loop"
    /\ batchIdx' = 1
    /\ results' = <<>>
    /\ UNCHANGED <<cop, prompt, secretId, secretKey, imagePaths, reads, requests, events, cresult,
                   cerror>>
    /\ UNCHANGED <<xvars, ovars>>
    /\ UNCHANGED <<svars, gvars, rvars>>

\* one pass of the loop of analyzeImageBatch up to the await inside
\* analyzeImage; after the last pass, `return results`
BatchPass ==
    /\ cop = "analyzeImageBatch"
    /\ cpc = "loop"
    /\ IF batchIdx > Len(imagePaths)
       THEN /\ cpc' = "returned"
            /\ cresult' = results
            /\ UNCHANGED <<results, batchIdx, reads, cerror, validated>>
       ELSE AnalyzeImageBegins(batchIdx)
    /\ UNCHANGED <<cop, prompt, secretId, secretKey, imagePaths, requests, events>>
    /\ UNCHANGED <<xvars, ovars>>
    /\ UNCHANGED <<svars, gvars, now, sent>>

\* `await new Promise(resolve => setTimeout(resolve, 1000))` is over
DelayElapsed ==
    /\ cop = "analyzeImageBatch"
    /\ cpc = "delay"
    /\ events' = Append(events, "delay")
    /\ batchIdx' = batchIdx + 1
    /\ cpc' = "loop"
    /\ UNCHANGED <<cop, prompt, secretId, secretKey, imagePaths, results, reads, requests, cresult,
                   cerror>>
    /\ UNCHANGED <<xvars, ovars>>
    /\ UNCHANGED <<svars, gvars, rvars>>

\* imageToBase64 settles inside analyzeImage; when it resolves: params,
\* timestamp, authorization and the fetch call
ImageEncoded ==
    /\ cop \in {"analyzeImage", "analyzeImageBatch"}
    /\ cpc = "encoding"
    /\ \E answer \in ReadAnswers :
        /\ reads' = [reads EXCEPT ![batchIdx] = answer]
        /\ IF EncodeFails(answer)
           THEN ImageThrows(EncodingError) /\ UNCHANGED <<requests, events, sent>>
           ELSE /\ Fetch(VisionRequest("analyzeImage",
                        <<TextPart, ImagePart(DataUri(imagePaths[batchIdx], answer.bytes))>>),
                      validated)
                /\ cpc' = "fetching"
                /\ UNCHANGED <<results, batchIdx, cresult, cerror>>
    /\ UNCHANGED <<cop, prompt, secretId, secretKey, imagePaths>>
    /\ UNCHANGED <<xvars, ovars>>
    /\ UNCHANGED <<svars, gvars, now, validated>>

\* analyzeImagesInSingleRequest up to `await Promise.all(...)`: every
\* imageToBase64 of limitedPaths has been started
AnalyzeImagesInSingleRequestCall ==
    /\ cop = "analyzeImagesInSingleRequest"
    /\ cpc = "idle"
    /\ IF CredentialsMissing
       THEN cpc' = "thrown" /\ cerror' = CredentialsError /\ UNCHANGED <<reads, validated>>
       ELSE /\ cpc' = "encodingAll"
            /\ validated' = Pair(secretId, secretKey)
            /\ reads' = [k \in 1..Len(limitedPaths(imagePaths)) |-> Reading]
            /\ UNCHANGED cerror
    /\ UNCHANGED <<cop, prompt, secretId, secretKey, imagePaths, batchIdx, results, requests, events,
                   cresult>>
    /\ UNCHANGED <<xvars, ovars>>
    /\ UNCHANGED <<svars, gvars, now, sent>>

\* one imageToBase64 of the Promise.all settles; the first rejection rejects
\* the Promise.all, the other reads go on
SingleImageEncoded ==
    /\ cop = "analyzeImagesInSingleRequest"
    /\ \E k \in DOMAIN reads, answer \in ReadAnswers :
        /\ reads[k] = Reading
        /\ reads' = [reads EXCEPT ![k] = answer]
        /\ IF cpc = "encodingAll" /\ EncodeFails(answer)
           THEN cpc' = "thrown" /\ cerror' = EncodingError
           ELSE UNCHANGED <<cpc, cerror>>
    /\ UNCHANGED <<cop, prompt, secretId, secretKey, imagePaths, batchIdx, results, requests,
                   events, cresult>>
    /\ UNCHANGED <<xvars, ovars>>
    /\ UNCHANGED <<svars, gvars, rvars>>

\* the Promise.all resolved: contents, params, timestamp, authorization, fetch
SingleRequestSent ==
    /\ cop = "analyzeImagesInSingleRequest"
    /\ cpc = "encodingAll"
    /\ \A k \in DOMAIN reads : reads[k] # Reading
    /\ Fetch(VisionRequest("analyzeImagesInSingleRequest",
                <<TextPart>> \o [k \in DOMAIN reads |->
                    ImagePart(DataUri(limitedPaths(imagePaths)[k], reads[k].bytes))]),
             validated)
    /\ cpc' = "fetching"
    /\ UNCHANGED <<cop, prompt, secretId, secretKey, imagePaths, batchIdx, results, reads, cresult,
                   cerror>>
    /\ UNCHANGED <<xvars, ovars>>
    /\ UNCHANGED <<svars, gvars, now, validated>>

\* generateText up to `await fetch(...)`
GenerateTextCall ==
    /\ cop = "generateText"
    /\ cpc = "idle"
    /\ IF CredentialsMissing
       THEN /\ cpc' = "thrown"
            /\ cerror' = CredentialsError
            /\ UNCHANGED <<requests, events, sent, validated>>
       ELSE /\ validated' = Pair(secretId, secretKey)
            /\ Fetch(TextRequest(prompt), validated')
            /\ cpc' = "fetching"
            /\ UNCHANGED cerror
    /\ UNCHANGED <<cop, prompt, secretId, secretKey, imagePaths, batchIdx, results, reads, cresult>>
    /\ UNCHANGED <<xvars, ovars>>
    /\ UNCHANGED <<svars, gvars, now>>

\* the response has choices: the method returns content and usage
FetchResolves ==
    /\ cpc = "fetching"
    /\ \E content \in ApiContents, total \in 1..MaxUsage :
        IF cop \in {"analyzeImage", "analyzeImageBatch"}
        THEN ImageReturns(Analysis(imagePaths[batchIdx], content, total))
        ELSE /\ cpc' = "returned"
             /\ cresult' = Analysis("", content, total)
             /\ UNCHANGED <<results, batchIdx>>
    /\ UNCHANGED <<cop, prompt, secretId, secretKey, imagePaths, reads, requests, events, cerror>>
    /\ UNCHANGED <<xvars, ovars>>
    /\ UNCHANGED <<svars, gvars, rvars>>

\* the method whose code issued the fetch
Method == IF cop = "analyzeImageBatch" THEN "analyzeImage" ELSE cop

\* the Error built for a failed fetch: fetch rejected, !response.ok, an
\* error envelope with code `why`, or no choice in the response
FetchError(op, why) ==
    IF why \in ErrorCodes THEN EnvelopeError(op, why) ELSE ClientError(why, "", "", {})

\* (mutation of FetchRejected: the request is issued once more before giving up)
FetchRejectedRetries(err) ==
    IF Len(requests) <= Len(imagePaths) + 1
    THEN /\ requests' = Append(requests, requests[Len(requests)])
         /\ events' = Append(events, "request")
         /\ UNCHANGED <<cpc, cerror, results, batchIdx, cresult>>
    ELSE /\ UNCHANGED <<requests, events>>
         /\ cpc' = "thrown"
         /\ cerror' = err
         /\ UNCHANGED <<results, batchIdx, cresult>>

\* the throw after a failed fetch: no further request, the error goes to the
\* method's catch, which rethrows
FetchRejected(err) ==
    /\ UNCHANGED <<requests, events>>
    /\ IF cop \in {"analyzeImage", "analyzeImageBatch"}
       THEN ImageThrows(err)
       ELSE /\ cpc' = "thrown"
            /\ cerror' = err
            /\ UNCHANGED <<results, batchIdx, cresult>>

\* fetch rejects or !response.ok, the body is an error envelope, or it has no
\* choice: the method throws
FetchFails ==
    /\ cpc = "fetching"
    /\ \E why \in FetchErrors : FetchRejected(FetchError(Method, why))
    /\ UNCHANGED <<cop, prompt, secretId, secretKey, imagePaths, reads>>
    /\ UNCHANGED <<xvars, ovars>>
    /\ UNCHANGED <<svars, gvars, rvars>>

NextClient ==
    \/ AnalyzeImageCall
    \/ AnalyzeImageBatchCall
    \/ BatchPass
    \/ DelayElapsed
    \/ ImageEncoded
    \/ AnalyzeImagesInSingleRequestCall
    \/ SingleImageEncoded
    \/ SingleRequestSent
    \/ GenerateTextCall
    \/ FetchResolves
    \/ FetchFails

SpecClient == InitClient /\ [][NextClient]_vars

(* ------------- hunyuan-client.ts: the clock, shared clients ----------- *)
MaxClock == 2           \* seconds that pass while the method runs
MaxShared == 2          \* longest imagePaths of a method run against the clock or on
                        \*   a shared client

\* a second passes
Tick ==
    /\ now < MaxClock
    /\ now' = now + 1
    /\ UNCHANGED <<validated, sent>>
    /\ UNCHANGED <<xvars, cvars, ovars, svars, gvars>>

\* setCredentials(secretId, secretKey), called by another user of the same
\* HunyuanClient while the method is suspended (or before it starts)
setCredentials ==
    /\ cpc \notin {"returned", "thrown"}
    /\ \E pair \in {Pair("AKIDother", "otherkey"), Pair("", "")} :
        /\ Pair(secretId, secretKey) # pair
        /\ secretId' = pair.secretId
        /\ secretKey' = pair.secretKey
    /\ UNCHANGED <<cop, cpc, imagePaths, batchIdx, results, reads, requests, events, cresult,
                   cerror, prompt>>
    /\ UNCHANGED <<xvars, ovars, svars, gvars, rvars>>

InitShared ==
    /\ InitClient
    /\ Len(imagePaths) <= MaxShared

\* a method of the client while time passes
NextClock ==
    \/ NextClient
    \/ Tick

SpecClock == InitShared /\ [][NextClock]_vars

\* a method of the client while another user of the client sets credentials
NextShared ==
    \/ NextClient
    \/ setCredentials

SpecShared == InitShared /\ [][NextShared]_vars

(* -------------------------- video-processor.ts ------------------------ *)
InitVideo ==
    /\ NoServer
    /\ NoSigning
    /\ NoRequests
    /\ entry \in {"analyzeVideo", "generateVideoScript"}
    /\ opc = "idle"
    /\ videoPath \in {"", "video.mp4"}
    /\ optMaxFrames \in -1..MaxVideoFrames
    /\ optClient \in BOOLEAN
    /\ optCredentials \in BOOLEAN
    /\ cleanup \in BOOLEAN
    /\ pending = ""
    /\ cleanupCalls = 0
    /\ cleanupIdx = 0
    /\ unlinked = <<>>
    /\ unlinkFailures = 0
    /\ analysisResult = <<>>
    /\ usage = <<>>
    /\ xpc = "NotCalled" /\ xerr = "" /\ maxFrames = 0 /\ strategy \in Strategies
    /\ dirOps = 0 /\ probeCalls = 0 /\ duration = 0 /\ selDuration = 0
    /\ timestamps = <<>> /\ frameIdx = 0 /\ framePaths = <<>>
    /\ successCount = 0 /\ failureCount = 0 /\ outcomes = <<>>
    /\ abandoned = {} /\ written = {}
    /\ cop = ""
    /\ cpc = "idle"
    /\ \E has \in BOOLEAN :
        /\ has => optClient
        /\ secretId = IF has THEN "AKIDexample" ELSE ""
        /\ secretKey = IF has THEN "key" ELSE ""
    /\ imagePaths = <<>>
    /\ batchIdx = 0
    /\ results = <<>>
    /\ reads = <<>>
    /\ requests = <<>>
    /\ events = <<>>
    /\ cresult = <<>>
    /\ cerror = NoError
    /\ prompt = NoPrompt

\* analyzeVideo / generateVideoScript up to `await fs.access(videoPath)`
VideoProcessorCall ==
    /\ opc = "idle"
    /\ opc' = IF videoPath = "" THEN "failed" ELSE "checkingFile"
    /\ UNCHANGED <<entry, videoPath, optMaxFrames, optClient, optCredentials, cleanup, pending,
                   cleanupCalls, cleanupIdx, unlinked, unlinkFailures, analysisResult, usage>>
    /\ UNCHANGED <<xvars, cvars>>
    /\ UNCHANGED <<svars, gvars, rvars>>

\* fs.access settled; then the client is created or given, and extractFrames
\* is called with maxFrames: Math.min(maxFrames, 4)
VideoFileChecked ==
    /\ opc = "checkingFile"
    /\ \E accessible \in BOOLEAN :
        IF ~accessible \/ (~optClient /\ ~optCredentials)
        THEN /\ opc' = "failed"
             /\ UNCHANGED <<xpc, maxFrames, secretId, secretKey>>
        ELSE /\ opc' = "extracting"
             /\ xpc' = "Idle"
             /\ maxFrames' = Min(optMaxFrames, CostCap)
             /\ secretId' = IF optCredentials THEN "AKIDoption" ELSE secretId
             /\ secretKey' = IF optCredentials THEN "optionkey" ELSE secretKey
    /\ UNCHANGED <<entry, videoPath, optMaxFrames, optClient, optCredentials, cleanup, pending,
                   cleanupCalls, cleanupIdx, unlinked, unlinkFailures, analysisResult, usage>>
    /\ UNCHANGED <<xerr, strategy, dirOps, probeCalls, duration, selDuration, timestamps,
                   frameIdx, framePaths, successCount, failureCount, outcomes, abandoned,
                   written>>
    /\ UNCHANGED <<cop, cpc, imagePaths, batchIdx, results, reads, requests, events, cresult,
                   cerror, prompt>>
    /\ UNCHANGED <<svars, gvars, rvars>>

\* (mutation of Finally: the cleanup follows the return only, as if it were
\* the last statement of the try block)
FinallyAfterReturnOnly(how) ==
    IF cleanup /\ framePaths # <<>> /\ how = "return"
    THEN /\ opc' = "cleaning"
         /\ pending' = how
         /\ cleanupCalls' = cleanupCalls + 1
         /\ cleanupIdx' = 1
    ELSE /\ opc' = IF how = "return" THEN "done" ELSE "failed"
         /\ UNCHANGED <<pending, cleanupCalls, cleanupIdx>>

\* the finally block: cleanupFrames(framePaths) up to its first `await fs.unlink`
Finally(how) ==
    IF cleanup /\ framePaths # <<>>
    THEN /\ opc' = "cleaning"
         /\ pending' = how
         /\ cleanupCalls' = cleanupCalls + 1
         /\ cleanupIdx' = 1
    ELSE /\ opc' = IF how = "return" THEN "done" ELSE "failed"
         /\ cleanupCalls' = IF cleanup THEN cleanupCalls + 1 ELSE cleanupCalls
         /\ UNCHANGED <<pending, cleanupIdx>>

\* (mutation of VideoExtractionFailed: extractFrames inside the try ... finally)
VideoExtractionFailedCleansUp ==
    /\ opc = "extracting"
    /\ xpc = "Failed"
    /\ opc' = "failed"
    /\ cleanupCalls' = IF cleanup THEN cleanupCalls + 1 ELSE cleanupCalls
    /\ UNCHANGED <<entry, videoPath, optMaxFrames, optClient, optCredentials, cleanup, pending,
                   cleanupIdx, unlinked, unlinkFailures, analysisResult, usage>>
    /\ UNCHANGED <<xvars, cvars>>
    /\ UNCHANGED <<svars, gvars, rvars>>

\* extractFrames threw: it is outside the try ... finally, the outer catch rethrows
VideoExtractionFailed ==
    /\ opc = "extracting"
    /\ xpc = "Failed"
    /\ opc' = "failed"
    /\ UNCHANGED <<entry, videoPath, optMaxFrames, optClient, optCredentials, cleanup, pending,
                   cleanupCalls, cleanupIdx, unlinked, unlinkFailures, analysisResult, usage>>
    /\ UNCHANGED <<xvars, cvars>>
    /\ UNCHANGED <<svars, gvars, rvars>>

\* extractFrames returned: analyzeImagesInSingleRequest(framePaths, prompt) is called
VideoFramesExtracted ==
    /\ opc = "extracting"
    /\ xpc = "Done"
    /\ IF Len(framePaths) = 0
       THEN opc' = "failed" /\ UNCHANGED <<cop, imagePaths>>
       ELSE /\ opc' = "analysing"
            /\ cop' = "analyzeImagesInSingleRequest"
            /\ imagePaths' = framePaths
    /\ UNCHANGED <<entry, videoPath, optMaxFrames, optClient, optCredentials, cleanup, pending,
                   cleanupCalls, cleanupIdx, unlinked, unlinkFailures, analysisResult, usage>>
    /\ UNCHANGED <<cpc, secretId, secretKey, batchIdx, results, reads, requests, events,
                   cresult, cerror, prompt>>
    /\ UNCHANGED xvars
    /\ UNCHANGED <<svars, gvars, rvars>>

\* (mutation of buildScriptPrompt: the analysis text is left out of the prompt)
buildScriptPromptWithoutAnalysis(videoAnalysis) == Prompt("script", "")

\* basePrompt = `... 【视频内容分析】 ${videoAnalysis} 【脚本要求】 ...`
buildScriptPrompt(videoAnalysis) == Prompt("script", videoAnalysis)

\* analyzeImagesInSingleRequest settled: analyzeVideo returns the summary;
\* generateVideoScript builds the script prompt and calls generateText; a
\* throw goes to the finally block
VideoAnalysisSettled ==
    /\ opc = "analysing"
    /\ cpc \in {"returned", "thrown"}
    /\ IF cpc = "returned" /\ entry = "generateVideoScript"
       THEN /\ analysisResult' = cresult
            /\ opc' = "generating"
            /\ cop' = "generateText"
            /\ cpc' = "idle"
            /\ prompt' = buildScriptPrompt(cresult.content)
            /\ UNCHANGED <<pending, cleanupCalls, cleanupIdx>>
       ELSE /\ Finally(IF cpc = "returned" THEN "return" ELSE "throw")
            /\ UNCHANGED <<analysisResult, cop, cpc, prompt>>
    /\ UNCHANGED <<entry, videoPath, optMaxFrames, optClient, optCredentials, cleanup,
                   unlinked, unlinkFailures, usage>>
    /\ UNCHANGED <<secretId, secretKey, imagePaths, batchIdx, results, reads, requests,
                   events, cresult, cerror>>
    /\ UNCHANGED xvars
    /\ UNCHANGED <<svars, gvars, rvars>>

\* generateText settled: the result with the summed usage, then the finally block
VideoScriptSettled ==
    /\ opc = "generating"
    /\ cpc \in {"returned", "thrown"}
    /\ IF cpc = "returned"
       THEN /\ usage' = [analysisTokens |-> analysisResult.totalTokens,
                         scriptTokens |-> cresult.totalTokens,
                         totalTokens |-> analysisResult.totalTokens + cresult.totalTokens]
            /\ Finally("return")
       ELSE /\ UNCHANGED usage
            /\ Finally("throw")
    /\ UNCHANGED <<entry, videoPath, optMaxFrames, optClient, optCredentials, cleanup,
                   unlinked, unlinkFailures, analysisResult>>
    /\ UNCHANGED <<xvars, cvars>>
    /\ UNCHANGED <<svars, gvars, rvars>>

\* cleanupFrames after the pass for framePaths[cleanupIdx]: the next pass up
\* to its `await fs.unlink`, or, after the last one, the return; the finally
\* block then ends and the outcome of the try block stands
CleanupContinues ==
    /\ cleanupIdx' = cleanupIdx + 1
    /\ opc' = IF cleanupIdx < Len(framePaths) THEN "cleaning"
              ELSE IF pending = "return" THEN "done" ELSE "failed"

\* (mutation of UnlinkRejected: the error of fs.unlink is rethrown)
UnlinkRejectedRaises ==
    /\ unlinkFailures' = unlinkFailures + 1
    /\ cleanupIdx' = cleanupIdx
    /\ opc' = "failed"

\* the catch block of cleanupFrames: failureCount++, a warning, the loop goes on
UnlinkRejected ==
    /\ unlinkFailures' = unlinkFailures + 1
    /\ CleanupContinues

\* cleanupFrames: one `await fs.unlink(framePath)` settles
UnlinkSettled ==
    /\ opc = "cleaning"
    /\ unlinked' = Append(unlinked, framePaths[cleanupIdx])
    /\ \E deleted \in BOOLEAN :
        IF deleted
        THEN CleanupContinues /\ UNCHANGED unlinkFailures
        ELSE UnlinkRejected
    /\ UNCHANGED <<entry, videoPath, optMaxFrames, optClient, optCredentials, cleanup, pending,
                   cleanupCalls, analysisResult, usage>>
    /\ UNCHANGED <<xvars, cvars>>
    /\ UNCHANGED <<svars, gvars, rvars>>

\* (the processes extractFrames left behind do not act on the orchestrator:
\* they are followed in SpecFrames only)
NextVideo ==
    \/ VideoProcessorCall
    \/ VideoFileChecked
    \/ NextFrames
    \/ VideoExtractionFailed
    \/ VideoFramesExtracted
    \/ AnalyzeImagesInSingleRequestCall
    \/ SingleImageEncoded
    \/ SingleRequestSent
    \/ GenerateTextCall
    \/ FetchResolves
    \/ FetchFails
    \/ VideoAnalysisSettled
    \/ VideoScriptSettled
    \/ UnlinkSettled

SpecVideo == InitVideo /\ [][NextVideo]_vars

(* ---------- video-processor.ts and index.ts: batches of images -------- *)
\* content.startsWith(prefix), for the contents the model has: the failure
\* marker is `❌ 分析失败: ...`; what the API answered begins otherwise
CrossMark == "(x)"      \* stands for the character ❌
startsWith(content, prefix) == content = "failed" /\ prefix = CrossMark

\* (mutation of successfulAnalyses: no filter)
allAnalyses(rs) == rs

\* analysisResults.filter(result => !result.content.startsWith('❌'))
successfulAnalyses(rs) == SelectSeq(rs, LAMBDA r : ~startsWith(r.content, CrossMark))

\* successfulAnalyses.map((result, index) => '【图片 ' + (index + 1) + '】' + result.content)
combinedAnalysis(rs) == [k \in 1..Len(rs) |-> [index |-> k, content |-> rs[k].content]]

\* buildImageScriptPrompt(combinedAnalysis, {..., imageCount})
buildImageScriptPrompt(imageAnalysis, imageCount) ==
    Prompt("imageScript", [images |-> imageAnalysis, imageCount |-> imageCount])

\* results.reduce((sum, result) => sum + result.usage.totalTokens, 0)
RECURSIVE reduceTotalTokens(_)
reduceTotalTokens(rs) ==
    IF rs = <<>> THEN 0 ELSE reduceTotalTokens(SubSeq(rs, 1, Len(rs) - 1)) + rs[Len(rs)].totalTokens

\* results.filter(result => !result.content.startsWith('Error')).length
countedSuccesses(rs) == Len(SelectSeq(rs, LAMBDA r : ~startsWith(r.content, "Error")))

\* the statistics text of handleAnalyzeImageBatch
Statistics(total, success, tokens) ==
    [total |-> total, success |-> success, failure |-> total - success, tokens |-> tokens]

MaxImages == 2          \* longest imagePaths given to generateImageScript / analyze_image_batch

InitImages ==
    /\ NoExtraction
    /\ NoSigning
    /\ NoServer
    /\ NoRequests
    /\ entry \in {"generateImageScript", "analyze_image_batch"}
    /\ opc = "idle"
    /\ videoPath = ""
    /\ optMaxFrames = 0
    /\ optClient \in BOOLEAN
    /\ optCredentials \in BOOLEAN
    /\ entry = "analyze_image_batch" => (~optClient /\ optCredentials)
    /\ cleanup = FALSE
    /\ pending = ""
    /\ cleanupCalls = 0
    /\ cleanupIdx = 0
    /\ unlinked = <<>>
    /\ unlinkFailures = 0
    /\ analysisResult = <<>>
    /\ usage = <<>>
    /\ cop = ""
    /\ cpc = "idle"
    /\ secretId = (IF optClient THEN "AKIDexample" ELSE "")
    /\ secretKey = (IF optClient THEN "key" ELSE "")
    /\ \E n \in 0..MaxImages : imagePaths \in [1..n -> PathIds]
    /\ batchIdx = 0
    /\ results = <<>>
    /\ reads = <<>>
    /\ requests = <<>>
    /\ events = <<>>
    /\ cresult = <<>>
    /\ cerror = NoError
    /\ prompt = NoPrompt

\* generateImageScript / handleAnalyzeImageBatch up to the first
\* `await fs.access(imagePath)`
ImagesCall ==
    /\ opc = "idle"
    /\ opc' = IF imagePaths = <<>> THEN "failed" ELSE "checkingFiles"
    /\ UNCHANGED <<entry, videoPath, optMaxFrames, optClient, optCredentials, cleanup, pending,
                   cleanupCalls, cleanupIdx, unlinked, unlinkFailures, analysisResult, usage>>
    /\ UNCHANGED <<xvars, cvars, svars, gvars, rvars>>

\* the fs.access loop is over (invalidPaths is empty or not); then the
\* client is created or given and analyzeImageBatch(imagePaths, prompt) is called
ImageFilesChecked ==
    /\ opc = "checkingFiles"
    /\ \E accessible \in BOOLEAN :
        IF ~accessible \/ (~optClient /\ ~optCredentials)
        THEN /\ opc' = "failed"
             /\ UNCHANGED <<cop, secretId, secretKey>>
        ELSE /\ opc' = "analysing"
             /\ cop' = "analyzeImageBatch"
             /\ secretId' = IF optCredentials THEN "AKIDoption" ELSE secretId
             /\ secretKey' = IF optCredentials THEN "optionkey" ELSE secretKey
    /\ UNCHANGED <<entry, videoPath, optMaxFrames, optClient, optCredentials, cleanup, pending,
                   cleanupCalls, cleanupIdx, unlinked, unlinkFailures, analysisResult, usage>>
    /\ UNCHANGED <<cpc, imagePaths, batchIdx, results, reads, requests, events, cresult,
                   cerror, prompt>>
    /\ UNCHANGED <<xvars, svars, gvars, rvars>>

\* analyzeImageBatch returned.  handleAnalyzeImageBatch counts and answers;
\* generateImageScript filters, throws when nothing is left, otherwise builds
\* the script prompt and calls generateText
ImageBatchSettled ==
    /\ opc = "analysing"
    /\ cpc = "returned"
    /\ IF entry = "analyze_image_batch"
       THEN /\ opc' = "done"
            /\ reply' = ToolAnswer("result", ToolError("none", <<>>),
                    Statistics(Len(imagePaths), countedSuccesses(cresult),
                               reduceTotalTokens(cresult)))
            /\ UNCHANGED <<analysisResult, cop, cpc, prompt>>
       ELSE IF successfulAnalyses(cresult) = <<>>
       THEN /\ opc' = "failed"
            /\ UNCHANGED <<reply, analysisResult, cop, cpc, prompt>>
       ELSE /\ opc' = "generating"
            /\ analysisResult' = cresult
            /\ cop' = "generateText"
            /\ cpc' = "idle"
            /\ prompt' = buildImageScriptPrompt(combinedAnalysis(successfulAnalyses(cresult)),
                                                Len(successfulAnalyses(cresult)))
            /\ UNCHANGED reply
    /\ UNCHANGED <<entry, videoPath, optMaxFrames, optClient, optCredentials, cleanup, pending,
                   cleanupCalls, cleanupIdx, unlinked, unlinkFailures, usage>>
    /\ UNCHANGED <<secretId, secretKey, imagePaths, batchIdx, results, reads, requests,
                   events, cresult, cerror>>
    /\ UNCHANGED <<env, options, server, spc, toolName, args, final>>
    /\ UNCHANGED <<xvars, gvars, rvars>>

\* generateText settled: the script with the usage sums, or the rethrow
ImageScriptSettled ==
    /\ entry = "generateImageScript"
    /\ opc = "generating"
    /\ cpc \in {"returned", "thrown"}
    /\ IF cpc = "returned"
       THEN /\ opc' = "done"
            /\ usage' = [analysisTokens |-> reduceTotalTokens(analysisResult),
                         scriptTokens |-> cresult.totalTokens,
                         totalTokens |-> reduceTotalTokens(analysisResult)
                                            + cresult.totalTokens]
       ELSE /\ opc' = "failed"
            /\ UNCHANGED usage
    /\ UNCHANGED <<entry, videoPath, optMaxFrames, optClient, optCredentials, cleanup, pending,
                   cleanupCalls, cleanupIdx, unlinked, unlinkFailures, analysisResult>>
    /\ UNCHANGED <<xvars, cvars, svars, gvars, rvars>>

NextImages ==
    \/ ImagesCall
    \/ ImageFilesChecked
    \/ AnalyzeImageBatchCall
    \/ BatchPass
    \/ DelayElapsed
    \/ ImageEncoded
    \/ GenerateTextCall
    \/ FetchResolves
    \/ FetchFails
    \/ ImageBatchSettled
    \/ ImageScriptSettled

SpecImages == InitImages /\ [][NextImages]_vars

(* ------------------ hunyuan-client.ts: signing, checked ---------------- *)
\* Math.floor(Date.now() / 1000) at the moments sampled: the last second of
\* 1970-01-01, the first of 2000-02-29, the last of 2024-02-29, the first of 2025
SampleTimestamps == {86399, 951782400, 1709251199, 1735689600}

SigningInputs ==
    {SigningInput(id, secret, endpoint, region, timestamp, params) :
        id \in {"AKIDone", "AKIDtwo"},
        secret \in {"keyOne", "keyTwo"},
        endpoint \in {"hunyuan.tencentcloudapi.com", "hunyuan.ap-guangzhou.tencentcloudapi.com"},
        region \in {"ap-beijing", "ap-guangzhou"},
        timestamp \in SampleTimestamps,
        params \in {"{Model: hunyuan-vision}", "{Model: hunyuan-lite}"}}

InitSigning ==
    /\ NoExtraction
    /\ NoClient
    /\ NoVideoProcessor
    /\ NoServer
    /\ entry = "signing"
    /\ signing \in [1..2 -> SigningInputs]
    /\ signed = <<>>

\* one request is prepared: timestamp, authorization and headers of the
\* fetch call, for the next of the two invocations
SignRequest ==
    /\ Len(signed) < Len(signing)
    /\ signed' = Append(signed, RequestHeaders(signing[Len(signed) + 1]))
    /\ UNCHANGED signing
    /\ UNCHANGED <<xvars, cvars, ovars, svars, rvars>>

NextSigning == SignRequest

SpecSigning == InitSigning /\ [][NextSigning]_vars

(* ------------------------------ index.ts ------------------------------ *)
\* a || b
Or(a, b) == IF a # Unset THEN a ELSE b

DefaultRegion == <<"ap-beijing">>

\* the values each source can supply; identifiers are letters, keys are digits
EnvCredentials ==
    {Credentials(id, key, region) :
        id \in {Unset, <<"A", "K", "I", "D", "e", "n", "v">>},
        key \in {Unset, <<"1", "2", "3">>},
        region \in {Unset, <<"ap-env">>}}

StartupCredentials ==
    {Credentials(id, key, region) :
        id \in {Unset, <<"A", "K", "I", "D", "a", "r", "g">>},
        key \in {Unset, <<"7", "8", "9">>},
        region \in {Unset, <<"ap-arg">>}}

\* a JSON number among the arguments (request.params.arguments is not checked
\* against inputSchema): the marker, then its digits
JsonNumber(digits) == <<"number">> \o digits
IsString(value) == value = Unset \/ value[1] # "number"

CallArguments ==
    {Arguments(path, id, key, region) :
        path \in {Unset, <<"video.mp4">>},
        id \in {Unset, <<"A", "K", "I", "D", "p", "a", "r">>, <<"i", "d">>, JsonNumber(<<"0">>)},
        key \in {Unset, <<"4", "5", "6">>},
        region \in {Unset, <<"ap-par">>}}

CredentialTools == {"analyze_video_content", "analyze_image_batch", "generate_video_script"}
Tools == CredentialTools \cup {"extract_video_frames", "get_video_info"}

InitServer ==
    /\ NoExtraction
    /\ NoClient
    /\ NoVideoProcessor
    /\ NoSigning
    /\ entry = "server"
    /\ env \in EnvCredentials
    /\ options \in StartupCredentials
    /\ server = NoCredentials
    /\ spc = "notStarted"
    /\ toolName = ""
    /\ args = Arguments(Unset, Unset, Unset, Unset)
    /\ final = NoCredentials
    /\ reply = NoAnswer

\* new VideoMCPServer(options), then run(): the server listens
VideoMCPServerConstructor ==
    /\ spc = "notStarted"
    /\ server' = Credentials(Or(env.secretId, options.secretId),
                             Or(env.secretKey, options.secretKey),
                             Or(Or(env.region, options.region), DefaultRegion))
    /\ spc' = "listening"
    /\ UNCHANGED <<env, options, toolName, args, final, reply>>
    /\ UNCHANGED <<xvars, cvars, ovars, gvars, rvars>>

\* str.slice(-4)
SliceLast4(str) == SubSeq(str, IF Len(str) > 4 THEN Len(str) - 3 ELSE 1, Len(str))

\* `***${secretId.slice(-4)}`
Masked(id) == <<"*", "*", "*">> \o SliceLast4(id)

\* JSON.stringify(sanitizedArgs, null, 2): undefined properties are left out
SanitizedArgs(a) ==
    (IF a.videoPath # Unset THEN <<"videoPath:">> \o a.videoPath ELSE <<>>)
    \o (IF a.secretId # Unset THEN <<"secretId:">> \o Masked(a.secretId) ELSE <<>>)
    \o (IF a.secretKey # Unset THEN <<"secretKey:", "***hidden***">> ELSE <<>>)
    \o (IF a.region # Unset THEN <<"region:">> \o a.region ELSE <<>>)

\* the branch of the baseError.includes(...) chain
Suggestions(error) ==
    IF error.kind = "signatureFailure" THEN <<"check SecretId and SecretKey">>
    ELSE IF error.kind = "rateLimit" THEN <<"retry later">>
    ELSE IF error.kind = "fileMissing" THEN <<"check the file path">>
    ELSE IF error.kind = "ffmpeg" THEN <<"check FFmpeg">>
    ELSE <<"check the input parameters">>

\* `❌ 操作失败: ${baseError}${contextInfo}${suggestions}`
formatError(error, name, a) ==
    <<"operation failed:">> \o error.text
        \o <<"[context]", name>> \o SanitizedArgs(a)
        \o <<"[suggestions]">> \o Suggestions(error)

\* sanitizedArgs.secretId.slice(-4) on a value that is not a string
SliceIsNotAFunction == ToolError("typeError", <<"sanitizedArgs.secretId.slice is not a function">>)

\* the catch block of the request handler: the text of formatError is
\* returned; when formatError throws, the handler rejects and `raised` is
\* what reaches the client instead of a result
ErrorAnswer(error, name, a) ==
    IF IsString(a.secretId)
    THEN ToolAnswer("error", error, formatError(error, name, a))
    ELSE ToolAnswer("raised", SliceIsNotAFunction, <<>>)

\* (mutation of FinalValue: the call parameter is looked at before the environment)
FinalValueParameterFirst(fromEnv, fromCall, fromServer) ==
    Or(Or(fromCall, fromEnv), fromServer)

\* process.env.TENCENT_X || x || this.x
FinalValue(fromEnv, fromCall, fromServer) == Or(Or(fromEnv, fromCall), fromServer)

\* the request handler up to the first await of the tool's handler
CallTool ==
    /\ spc \in {"listening", "answered"}
    /\ \E name \in Tools \cup {"unknown_tool"}, a \in CallArguments :
        /\ toolName' = name
        /\ args' = a
        /\ final' = IF name \in CredentialTools /\ a.videoPath # Unset
                     THEN Credentials(FinalValue(env.secretId, a.secretId, server.secretId),
                                      FinalValue(env.secretKey, a.secretKey, server.secretKey),
                                      FinalValue(env.region, a.region, server.region))
                     ELSE NoCredentials
        /\ IF name \notin Tools
           THEN /\ reply' = ErrorAnswer(ToolError("unknownTool", <<"unknown tool:", name>>),
                                         name, a)
                /\ spc' = "answered"
           ELSE IF a.videoPath = Unset
           THEN /\ reply' = ErrorAnswer(ToolError("validation", <<"videoPath is required">>),
                                         name, a)
                /\ spc' = "answered"
           ELSE IF name \in CredentialTools
                    /\ (final'.secretId = Unset \/ final'.secretKey = Unset)
           THEN /\ reply' = ErrorAnswer(ToolError("credentials",
                                                   <<"credentials are missing">>), name, a)
                /\ spc' = "answered"
           ELSE /\ reply' = NoAnswer
                /\ spc' = "running"
    /\ UNCHANGED <<env, options, server>>
    /\ UNCHANGED <<xvars, cvars, ovars, gvars, rvars>>

\* how the work the handler awaits can end, per tool
HandlerOutcomes(name) ==
    {"ok", "fileMissing"}
        \cup (IF name = "analyze_image_batch" THEN {} ELSE {"ffmpeg"})
        \cup (IF name \in {"analyze_video_content", "generate_video_script"}
              THEN {"signatureFailureVision", "rateLimit"} ELSE {})
        \cup (IF name = "generate_video_script" THEN {"signatureFailureText"} ELSE {})

\* the Error the handler's catch rethrows: fs.access failed, ffprobe / ffmpeg
\* failed, or the client threw for an error envelope (generateText names the
\* masked secretId it signed with, analyzeImagesInSingleRequest does not)
HandlerError(outcome, a, credentials) ==
    IF outcome = "fileMissing"
        THEN ToolError("fileMissing", <<"file does not exist:">> \o a.videoPath)
    ELSE IF outcome = "ffmpeg" THEN ToolError("ffmpeg", <<"Failed to get video info">>)
    ELSE IF outcome = "rateLimit" THEN ToolError("rateLimit", <<"LimitExceeded">>)
    ELSE IF outcome = "signatureFailureVision"
        THEN ToolError("signatureFailure", <<"API authentication failed">>)
    ELSE IF IsString(credentials.secretId)
        THEN ToolError("signatureFailure",
                       <<"AuthFailure.SignatureFailure", "check SecretId:">>
                           \o Masked(credentials.secretId))
    ELSE ToolError("typeError", <<"this.secretId?.slice is not a function">>)

\* the work the handler awaits settles: the tool's result, or the catch
\* block of the request handler
HandlerSettles ==
    /\ spc = "running"
    /\ \E outcome \in HandlerOutcomes(toolName) :
        reply' = IF outcome = "ok"
                  THEN ToolAnswer("result", ToolError("none", <<>>), <<"done:">> \o args.videoPath)
                  ELSE ErrorAnswer(HandlerError(outcome, args, final), toolName, args)
    /\ spc' = "answered"
    /\ UNCHANGED <<env, options, server, toolName, args, final>>
    /\ UNCHANGED <<xvars, cvars, ovars, gvars, rvars>>

NextServer ==
    \/ VideoMCPServerConstructor
    \/ CallTool
    \/ HandlerSettles

SpecServer == InitServer /\ [][NextServer]_vars

(* ======================= claims: frame extraction ===================== *)
Aborted == xpc = "Failed" /\ xerr = "abort"

Failures(k) == Cardinality({j \in 1..k : outcomes[j] # "end"})

\* C1: for D > 0 and N > 0, generateUniformTimestamps returns exactly N
\* values, the i-th being D/(N+1) * i, each strictly between 0 and D, strictly
\* increasing (checked on every call extractFrames makes to it).
C1_UniformTimestamps ==
    selDuration > 0 =>
        /\ Len(timestamps) = maxFrames
        /\ \A k \in 1..Len(timestamps) :
            /\ RatEq(timestamps[k], <<selDuration * k, maxFrames + 1>>)
            /\ RatLess(Zero, timestamps[k])
            /\ RatLess(timestamps[k], <<selDuration, 1>>)
        /\ \A k \in 1..(Len(timestamps) - 1) : RatLess(timestamps[k], timestamps[k + 1])

C1_Witness ==
    /\ strategy = "uniform"
    /\ selDuration = MaxDuration
    /\ Len(timestamps) >= 3

\* C2 (as claimed): for keyframe / scene_change, once getVideoInfo succeeded with
\* duration D, the selected timestamps are those of uniform for the same N and D.
C2_FallbackUsesProbedDuration ==
    (strategy \in {"keyframe", "scene_change"} /\ duration > 0 /\ selDuration > 0) =>
        timestamps = generateUniformTimestamps(duration, maxFrames)

\* C3: a failed capture is recorded and the loop goes on to the next
\* timestamp; the call aborts exactly when the first three captures all
\* failed; after a success no failure aborts; after the abort nothing is captured.
C3_AbortRule ==
    /\ failureCount = Failures(Len(outcomes))
    /\ successCount = Len(outcomes) - failureCount
    /\ xpc = "ExtractingFrame" => frameIdx = Len(outcomes) + 1
    /\ Aborted <=> (Len(outcomes) >= AbortThreshold /\ Failures(AbortThreshold) = AbortThreshold)
    /\ Aborted => (Len(outcomes) = AbortThreshold /\ frameIdx = 0)
    /\ successCount > 0 => ~Aborted

C3_Witness ==
    /\ xpc = "Done"
    /\ failureCount >= AbortThreshold

\* C4: extractFrames returns only with a non-empty list; when every capture
\* failed (also with 1 or 2 timestamps) the call ends in a failure.
C4_NeverEmptySuccess ==
    /\ xpc = "Done" => Len(framePaths) > 0
    /\ (Len(timestamps) > 0 /\ Len(outcomes) = Len(timestamps)
            /\ Failures(Len(outcomes)) = Len(outcomes)) => xpc = "Failed"

C4_Witness ==
    /\ xpc = "Failed"
    /\ xerr = "allFailed"
    /\ Len(timestamps) = 1

\* the paths of the captures among the first k that ended successfully, in order
RECURSIVE SuccessfulPaths(_)
SuccessfulPaths(k) ==
    IF k = 0 THEN <<>>
    ELSE IF outcomes[k] = "end"
    THEN Append(SuccessfulPaths(k - 1), FramePath(k, timestamps[k]))
    ELSE SuccessfulPaths(k - 1)

\* C5: framePaths is exactly the paths of the captures that ended
\* successfully, in increasing timestamp order; captures are invoked one
\* timestamp at a time in increasing order.
C5_ReturnedPathsAreSuccesses ==
    /\ framePaths = SuccessfulPaths(Len(outcomes))
    /\ xpc = "ExtractingFrame" => frameIdx = Len(outcomes) + 1
    /\ \A a, b \in 1..Len(framePaths) :
        a < b => RatLess(framePaths[a].timestamp, framePaths[b].timestamp)

C5_Witness ==
    /\ xpc = "Done"
    /\ Len(framePaths) = 2
    /\ \E k \in 1..Len(outcomes) : outcomes[k] = "timeout"
    /\ \E k \in 1..Len(outcomes) : outcomes[k] = "error"

\* the steps of the extraction state machine: selecting is part of the step
\* that ends the probe when the strategy needs no second probe
ExtractionSteps ==
    {<<"Idle", "ProbingMetadata">>, <<"Idle", "Failed">>,
     <<"ProbingMetadata", "SelectingTimestamps">>, <<"ProbingMetadata", "ExtractingFrame">>,
     <<"ProbingMetadata", "Failed">>,
     <<"SelectingTimestamps", "ExtractingFrame">>, <<"SelectingTimestamps", "Failed">>,
     <<"ExtractingFrame", "Done">>, <<"ExtractingFrame", "Failed">>}

\* C23: an extractFrames call goes Idle -> ProbingMetadata ->
\* SelectingTimestamps -> (ExtractingFrame)* -> Done | Failed: a capture is
\* invoked only after getVideoInfo succeeded and the timestamps were selected,
\* Done and Failed are terminal (no probe, selection or capture after
\* either), and Done is entered from the capture phase only.
C23_ExtractionStateMachine ==
    [][/\ xpc' # xpc => <<xpc, xpc'>> \in ExtractionSteps
       /\ xpc \in {"Done", "Failed"} =>
            UNCHANGED <<xpc, probeCalls, selDuration, timestamps, outcomes, framePaths>>
       /\ xpc' = "ExtractingFrame" => (duration' > 0 /\ selDuration' > 0 /\ timestamps' # <<>>)
       /\ outcomes' # outcomes =>
            /\ xpc = "ExtractingFrame"
            /\ UNCHANGED <<probeCalls, duration, selDuration, timestamps>>
       /\ (xpc' = "Done" /\ xpc # "Done") => (xpc = "ExtractingFrame" /\ outcomes' # outcomes)
      ]_vars

C23_Witness ==
    /\ xpc = "Done"
    /\ strategy = "scene_change"
    /\ probeCalls = 2
    /\ Len(outcomes) = MaxFrames
    /\ outcomes[1] = "error"

C30_FailureLeavesNoFrame ==
    xpc = "Failed" => written = {}

(* ========================== claims: API client ======================== *)
RECURSIVE SumTokens(_)
SumTokens(rs) == IF rs = <<>> THEN 0 ELSE rs[1].totalTokens + SumTokens(Tail(rs))

\* results.filter(result => !result.content.startsWith('❌'))
Successful(rs) == SelectSeq(rs, LAMBDA r : r.content # "failed")

\* the file system's answer lets the image be sent: present and at most 5MB
Sendable(answer) == answer.state = "read" /\ answer.bytes <= MaxImageBytes
Unsendable(answer) == answer.state = "missing" \/ answer.bytes > MaxImageBytes

\* C7: analyzeImageBatch never throws for a per-image failure; result k is
\* the result for input path k; a failed image is a failure marker with zero
\* usage; the remaining images are still processed; the summed usage is the
\* sum over the successful elements.
C7_BatchIsolatesFailures ==
    cop = "analyzeImageBatch" =>
        /\ cpc # "thrown"
        /\ Len(results) <= Len(imagePaths)
        /\ \A k \in 1..Len(results) :
            /\ results[k].image = imagePaths[k]
            /\ results[k].content = "failed" => results[k].totalTokens = 0
            /\ (k \notin DOMAIN reads \/ Unsendable(reads[k])) => results[k].content = "failed"
        /\ SumTokens(results) = SumTokens(Successful(results))
        /\ cpc = "returned" => (Len(results) = Len(imagePaths) /\ cresult = results)

C7_Witness ==
    /\ cop = "analyzeImageBatch"
    /\ cpc = "returned"
    /\ Len(results) = 3
    /\ 2 \in DOMAIN reads
    /\ reads[2] = Missing
    /\ results[1].content \in ApiContents
    /\ results[2].content = "failed"
    /\ results[3].content \in ApiContents

\* C8 (as claimed): in analyzeImageBatch the inter-call delay elapses between
\* every two consecutive per-image API calls, whatever the earlier call's outcome.
C8_DelayBetweenCalls ==
    cop = "analyzeImageBatch" =>
        \A k \in 1..(Len(events) - 1) :
            ~(events[k] = "request" /\ events[k + 1] = "request")

\* C9: analyzeImagesInSingleRequest reads only the first min(length, 4)
\* paths, never issues more than one fetch; the fetch it issues once all of
\* them are encoded carries one text part followed by those images in input order.
C9_SingleRequestShape ==
    cop = "analyzeImagesInSingleRequest" =>
        /\ DOMAIN reads \subseteq 1..Min(Len(imagePaths), SingleRequestCap)
        /\ Len(requests) <= 1
        /\ cpc \in {"fetching", "returned"} => Len(requests) = 1
        /\ (cpc = "encodingAll" \/ requests # <<>>) =>
                DOMAIN reads = 1..Min(Len(imagePaths), SingleRequestCap)
        /\ \A j \in 1..Len(requests) :
            /\ Len(requests[j].Contents) = 1 + Min(Len(imagePaths), SingleRequestCap)
            /\ requests[j].Contents[1].Type = "text"
            /\ \A k \in 1..Min(Len(imagePaths), SingleRequestCap) :
                /\ requests[j].Contents[k + 1].Type = "image_url"
                /\ requests[j].Contents[k + 1].Url.path = imagePaths[k]

C9_Witness ==
    /\ cop = "analyzeImagesInSingleRequest"
    /\ cpc = "returned"
    /\ Len(imagePaths) > SingleRequestCap
    /\ imagePaths[1] # imagePaths[2]

\* C10: when an image to be encoded is missing or larger than 5MB, the call
\* (analyzeImage, also as called per image by the batch, and
\* analyzeImagesInSingleRequest) fails without issuing a fetch: no request
\* carries such an image and no request is sent by a call with a failed encoding.
C10_NoRequestAfterEncodingFailure ==
    cop \in {"analyzeImage", "analyzeImageBatch", "analyzeImagesInSingleRequest"} =>
        /\ \A j \in 1..Len(requests) : \A k \in 2..Len(requests[j].Contents) :
                requests[j].Contents[k].Url.bytes <= MaxImageBytes
        /\ cop # "analyzeImageBatch" =>
                ((\E k \in DOMAIN reads : Unsendable(reads[k])) => requests = <<>>)
        /\ cop # "analyzeImageBatch" =>
                ((\E k \in DOMAIN reads : Unsendable(reads[k])) => cpc = "thrown")
        /\ cop # "analyzeImagesInSingleRequest" =>
                Len(requests) = Cardinality({k \in DOMAIN reads : Sendable(reads[k])})

C10_Witness ==
    /\ cop = "analyzeImagesInSingleRequest"
    /\ cpc = "thrown"
    /\ \E k \in DOMAIN reads : reads[k].bytes > MaxImageBytes
    /\ \E k \in DOMAIN reads : Sendable(reads[k])
    /\ \A k \in DOMAIN reads : reads[k] # Reading

\* the five codes named by the taxonomy, each with its class
KnownCodeClass ==
    [c \in {"FailedOperation.ServiceNotActivated", "AuthFailure.SignatureFailure",
            "LimitExceeded", "InvalidParameter", "ResourceNotFound"} |->
        CASE c = "FailedOperation.ServiceNotActivated" -> "serviceNotActivated"
          [] c = "AuthFailure.SignatureFailure" -> "signatureFailure"
          [] c = "LimitExceeded" -> "rateLimit"
          [] c = "InvalidParameter" -> "invalidParameter"
          [] c = "ResourceNotFound" -> "resourceNotFound"]

\* C11 (as claimed): in analyzeImage, analyzeImagesInSingleRequest and
\* generateText alike, an error envelope with one of the five known codes is
\* thrown as that code's own class, and one with an unrecognised code as the
\* unknown class whose message carries the raw code, message and requestId.
C11_ErrorCodeMapping ==
    (cop \in {"analyzeImage", "analyzeImagesInSingleRequest", "generateText"}
        /\ cpc = "thrown" /\ cerror.kind = "envelope") =>
            /\ cerror.code \in DOMAIN KnownCodeClass =>
                    cerror.class = KnownCodeClass[cerror.code]
            /\ cerror.code = "InternalError" =>
                    /\ cerror.class = "unknown"
                    /\ cerror.carries = {"code", "message", "requestId"}

\* the kinds of Error thrown after the fetch call was issued
FetchFailureKinds == {"transport", "httpStatus", "noChoice", "envelope"}

\* C12: one invocation of analyzeImage, analyzeImagesInSingleRequest or
\* generateText issues at most one fetch, also when that fetch fails
\* (transport, HTTP status, error envelope, no choice); analyzeImageBatch
\* issues at most one fetch per image its loop has reached.
C12_NoRetries ==
    /\ cop \in {"analyzeImage", "analyzeImagesInSingleRequest", "generateText"} =>
            /\ Len(requests) <= 1
            /\ cerror.kind \in FetchFailureKinds => (cpc = "thrown" /\ Len(requests) = 1)
    /\ cop = "analyzeImageBatch" =>
            /\ Len(requests) <= Min(batchIdx, Len(imagePaths))
            /\ Len(requests) <= Len(results) + (IF cpc = "fetching" THEN 1 ELSE 0)

C12_Witness ==
    /\ cop = "analyzeImageBatch"
    /\ cpc = "returned"
    /\ Len(imagePaths) = 2
    /\ Len(requests) = 2
    /\ results[1].content = "failed"
    /\ results[2].content = "failed"

\* C19 (as claimed): at most one external operation started by the client
\* (image file read or fetch) is in flight at any moment.
C19_NoParallelExecution ==
    Cardinality({k \in DOMAIN reads : reads[k] = Reading})
        + (IF cpc = "fetching" THEN 1 ELSE 0) <= 1

\* the parts of a request's Authorization value: the signature, the string
\* that was signed, the canonical request hashed into it, the innermost key
SignatureIn(request) == request.headers.Authorization[9]
SignedString(request) == SignatureIn(request).message
SignedRequest(request) == SignedString(request)[4].sha256
SigningKey(request) == SignatureIn(request).key.key.key.key

\* C25: every fetch carries the timestamp the clock shows when it is issued
\* (read in the same call, after the image was encoded), its X-TC-Timestamp
\* header and body are the timestamp and payload that were signed, and a
\* later request signs afresh: its own body, its own reading of the clock.
C25_FreshTimestampSigned ==
    /\ Len(sent) = Len(requests)
    /\ \A k \in 1..Len(sent) :
        /\ sent[k].headers.Timestamp = sent[k].clock
        /\ SignedString(sent[k])[2] = sent[k].headers.Timestamp
        /\ SignedRequest(sent[k])[4][6] = sent[k].headers.Timestamp
        /\ sent[k].body = requests[k]
        /\ SignedRequest(sent[k])[6] = Sha256Hex(sent[k].body)
    /\ \A j, k \in 1..Len(sent) : j < k => sent[j].clock <= sent[k].clock

C25_Witness ==
    /\ cop = "analyzeImageBatch"
    /\ cpc = "returned"
    /\ Len(sent) = 2
    /\ sent[1].headers.Timestamp = 1
    /\ sent[2].headers.Timestamp = MaxClock
    /\ sent[1].body # sent[2].body

\* C29 (as claimed): whenever setCredentials runs, every request is signed
\* with the pair validateCredentials accepted at the start of the same call:
\* id and key non-empty, and not replaced between validation and signing.
C29_SignedWithValidatedPair ==
    \A k \in 1..Len(sent) :
        /\ sent[k].validated.secretId # ""
        /\ sent[k].validated.secretKey # ""
        /\ sent[k].headers.Authorization[3] = sent[k].validated.secretId
        /\ SigningKey(sent[k]) = <<"TC3", sent[k].validated.secretKey>>

(* ========================= claims: orchestration ====================== *)
\* C6: when getVideoInfo fails, extractFrames fails with no capture invoked
\* and no partial result, and analyzeVideo / generateVideoScript then fails
\* without calling cleanupFrames and without any API call.
C6_ProbeFailureIsTerminal ==
    (xpc = "Failed" /\ xerr = "probe") =>
        /\ outcomes = <<>>
        /\ timestamps = <<>>
        /\ framePaths = <<>>
        /\ opc \in {"extracting", "failed"}
        /\ cleanupCalls = 0
        /\ unlinked = <<>>
        /\ cop = ""
        /\ requests = <<>>

C6_Witness ==
    /\ xpc = "Failed"
    /\ xerr = "probe"
    /\ opc = "failed"
    /\ cleanup
    /\ entry = "generateVideoScript"

\* C13: generateVideoScript issues at most two fetches, the first for the
\* image analysis and the second, only after the analysis returned, for
\* generateText with a prompt built from the analysis content; it returns
\* only after both, with analysisTokens and scriptTokens the two calls' total
\* usage and totalTokens their sum; when the analysis fails no second fetch
\* is issued.
C13_ScriptChainsTwoCalls ==
    entry = "generateVideoScript" =>
        /\ Len(requests) <= 2
        /\ Len(requests) >= 1 => requests[1].op = "analyzeImagesInSingleRequest"
        /\ Len(requests) = 2 =>
                /\ requests[2].op = "generateText"
                /\ analysisResult # <<>>
                /\ requests[2].Content.template = "script"
                /\ requests[2].Content.analysis = analysisResult.content
        /\ analysisResult = <<>> => Len(requests) <= 1
        /\ (opc \in {"cleaning", "done", "failed"} /\ analysisResult = <<>>) =>
                \A k \in 1..Len(requests) : requests[k].op # "generateText"
        /\ opc = "done" => (usage # <<>> /\ Len(requests) = 2)
        /\ usage # <<>> =>
                /\ usage.analysisTokens = analysisResult.totalTokens
                /\ usage.scriptTokens = cresult.totalTokens
                /\ usage.totalTokens = usage.analysisTokens + usage.scriptTokens

C13_Witness ==
    /\ entry = "generateVideoScript"
    /\ opc = "done"
    /\ usage # <<>>
    /\ usage.analysisTokens = 1
    /\ usage.scriptTokens = MaxUsage
    /\ analysisResult.content = "a person"

\* C14: cleanupFrames calls fs.unlink on every path of its input once, in
\* order, whatever the earlier deletions did, and returns normally: the
\* outcome of the try block it follows stands even when every deletion failed.
C14_CleanupNeverRaises ==
    /\ cleanupCalls <= 1
    /\ unlinkFailures <= Len(unlinked)
    /\ opc = "cleaning" => unlinked = SubSeq(framePaths, 1, cleanupIdx - 1)
    /\ (cleanupCalls = 1 /\ opc \in {"done", "failed"}) =>
            /\ unlinked = framePaths
            /\ opc = "done" <=> pending = "return"
    /\ cleanupCalls = 0 => unlinked = <<>>

C14_Witness ==
    /\ opc = "done"
    /\ cleanupCalls = 1
    /\ Len(framePaths) = 2
    /\ unlinkFailures = 2

C20_ValidationBeforeIO ==
    maxFrames <= 0 =>
        /\ dirOps = 0
        /\ probeCalls = 0
        /\ timestamps = <<>>
        /\ outcomes = <<>>

(* ======================= claims: batches of images ==================== *)
\* the batch results that are failure markers / are not, in order
Markers(rs) == SelectSeq(rs, LAMBDA r : r.content = "failed")
Analyses(rs) == SelectSeq(rs, LAMBDA r : r.content \in ApiContents)

\* the positions of the generateText fetches among the requests
TextRequests == {k \in 1..Len(requests) : requests[k].op = "generateText"}

C27_BatchCounts ==
    (entry = "analyze_image_batch" /\ opc = "done") =>
        /\ reply.text.success = Len(results) - Len(Markers(results))
        /\ reply.text.failure = Len(Markers(results))

(* ========================= claims: tool server ======================== *)
\* the value the claim prescribes: environment, else call parameter, else
\* startup argument, else the default
Prescribed(field, default) ==
    IF env[field] # Unset THEN env[field]
    ELSE IF args[field] # Unset THEN args[field]
    ELSE IF options[field] # Unset THEN options[field]
    ELSE default

\* C15: in a tool call that uses credentials, each of secretId, secretKey
\* and region is the environment value if set, otherwise the call parameter
\* if given, otherwise the startup argument, region otherwise ap-beijing.
C15_CredentialPrecedence ==
    (toolName \in CredentialTools /\ args.videoPath # Unset) =>
        /\ final.secretId = Prescribed("secretId", Unset)
        /\ final.secretKey = Prescribed("secretKey", Unset)
        /\ final.region = Prescribed("region", DefaultRegion)
        /\ spc = "running" => (final.secretId # Unset /\ final.secretKey # Unset)

C15_Witness ==
    /\ spc = "running"
    /\ toolName = "analyze_video_content"
    /\ env.secretId = Unset /\ args.secretId # Unset /\ options.secretId # Unset
    /\ final.secretId = args.secretId
    /\ env.secretKey # Unset /\ args.secretKey # Unset
    /\ final.secretKey = env.secretKey
    /\ env.region = Unset /\ args.region = Unset /\ options.region # Unset
    /\ final.region = options.region

\* text contains str as a run of consecutive characters
Contains(text, str) ==
    \E k \in 1..(Len(text) - Len(str) + 1) : SubSeq(text, k, k + Len(str) - 1) = str

Range(str) == {str[k] : k \in 1..Len(str)}

\* the secret keys and secret ids the failing call could touch
KeysInPlay == {env.secretKey, args.secretKey, options.secretKey} \ {Unset}
IdsInPlay == {env.secretId, args.secretId, options.secretId} \ {Unset}

\* C16 (as claimed): the text of a failed tool call holds no character of a
\* raw secret key, shows a secret id only as '***' plus a 4-character suffix
\* (never the id itself), and is the same whatever the secret key passed.
C16_SecretsAreMasked ==
    reply.kind = "error" =>
        /\ \A key \in KeysInPlay : \A k \in 1..Len(reply.text) :
                reply.text[k] \notin Range(key)
        /\ \A id \in IdsInPlay : ~Contains(reply.text, id)
        /\ \A key \in {<<"4", "5", "6">>, <<"0">>} :
                args.secretKey # Unset =>
                    reply.text = formatError(reply.error, toolName,
                                              [args EXCEPT !.secretKey = key])

\* C22 (as claimed): every failing tool call, an unknown tool name included,
\* is answered with a text result, never a raised error, and the text holds
\* the error summary, the parameters of the call with secretId and secretKey
\* masked, and a suggestions section.
C22_FailuresAnsweredAsText ==
    (spc = "answered" /\ reply.kind # "result") =>
        /\ reply.kind = "error"
        /\ Contains(reply.text, reply.error.text)
        /\ Contains(reply.text, <<"[context]", toolName>>)
        /\ args.videoPath # Unset => Contains(reply.text, <<"videoPath:">> \o args.videoPath)
        /\ args.secretId # Unset => Contains(reply.text, <<"secretId:", "*", "*", "*">>)
        /\ args.secretKey # Unset => Contains(reply.text, <<"secretKey:", "***hidden***">>)
        /\ \E k \in 1..(Len(reply.text) - 1) : reply.text[k] = "[suggestions]"

\* where the final value of a field came from (the values of the three
\* sources differ)
SourceOf(field) ==
    IF final[field] = Unset THEN "none"
    ELSE IF final[field] = env[field] THEN "environment"
    ELSE IF final[field] = args[field] THEN "call"
    ELSE "startup"

\* C28 (as claimed): the secretId and the secretKey a tool call uses come
\* from the same source: both from the environment, both from the call
\* parameters or both from the startup arguments.
C28_PairFromOneSource ==
    (toolName \in CredentialTools /\ spc = "running") =>
        SourceOf("secretId") = SourceOf("secretKey")

(* =========================== claims: signing ========================== *)
\* the part of an authorization value after `Signature=`
SignatureOf(headers) == headers.Authorization[9]

\* the headers of a request besides Authorization
PlainHeaders == {"ContentType", "Host", "Action", "Timestamp", "Version", "Region"}

\* C17 (as claimed): two invocations with the same secretId, secretKey,
\* endpoint, timestamp and payload return the same authorization value, and
\* two requests that differ in the value of exactly one header (same
\* credentials and payload) carry different signatures.
C17_SignatureCoversHeaders ==
    Len(signed) = 2 =>
        /\ (\A f \in {"secretId", "secretKey", "endpoint", "timestamp", "params"} :
                signing[1][f] = signing[2][f])
                => signed[1].Authorization = signed[2].Authorization
        /\ (/\ \A f \in {"secretId", "secretKey", "params"} : signing[1][f] = signing[2][f]
            /\ Cardinality({h \in PlainHeaders : signed[1][h] # signed[2][h]}) = 1)
                => SignatureOf(signed[1]) # SignatureOf(signed[2])

\* days from 1970-01-01 to the first day of year y, and the days of year y
\* before month m (the Gregorian rules, written out)
IsLeap(y) == (y % 4 = 0 /\ y % 100 # 0) \/ y % 400 = 0
LeapDaysBefore(y) == (y - 1) \div 4 - (y - 1) \div 100 + (y - 1) \div 400
DaysBeforeYear(y) == 365 * (y - 1970) + LeapDaysBefore(y) - LeapDaysBefore(1970)
MonthLength(y, m) ==
    IF m = 2 THEN (IF IsLeap(y) THEN 29 ELSE 28)
    ELSE IF m \in {4, 6, 9, 11} THEN 30 ELSE 31
RECURSIVE DaysBeforeMonth(_, _)
DaysBeforeMonth(y, m) == IF m = 1 THEN 0 ELSE DaysBeforeMonth(y, m - 1) + MonthLength(y, m - 1)

\* str is YYYY-MM-DD for the UTC day that holds second `timestamp`
IsUTCDateOf(str, timestamp) ==
    /\ Len(str) = 7
    /\ str[2] = "-" /\ str[5] = "-"
    /\ str[1] \in 1970..9999
    /\ \A k \in {3, 4, 6, 7} : str[k] \in 0..9
    /\ LET m == 10 * str[3] + str[4]
           d == 10 * str[6] + str[7]
           first == (DaysBeforeYear(str[1]) + DaysBeforeMonth(str[1], m) + d - 1) * SecondsPerDay
       IN  /\ m \in 1..12
           /\ d \in 1..MonthLength(str[1], m)
           /\ first <= timestamp
           /\ timestamp - first < SecondsPerDay

\* C18: the authorization value is 'TC3-HMAC-SHA256 Credential=' secretId
\* '/' date '/hunyuan/tc3_request, SignedHeaders=' names ', Signature='
\* signature, date being the UTC YYYY-MM-DD of the timestamp, and the
\* signature the HMAC of the string to sign under the key derived by
\* HMAC(TC3 + secretKey, date), then HMAC(., hunyuan), then HMAC(., tc3_request).
C18_AuthorizationFormat ==
    \A k \in 1..Len(signed) :
        LET auth == signed[k].Authorization
            date == auth[5][1]
        IN  /\ Len(auth) = 9
            /\ auth[1] = "TC3-HMAC-SHA256"
            /\ auth[2] = " Credential="
            /\ auth[3] = signing[k].secretId
            /\ auth[4] = "/"
            /\ auth[5] = <<date, "/", "hunyuan", "/", "tc3_request">>
            /\ IsUTCDateOf(date, signing[k].timestamp)
            /\ auth[6] = ", SignedHeaders="
            /\ auth[7] = "content-type;host;x-tc-action;x-tc-timestamp;x-tc-version"
            /\ auth[8] = ", Signature="
            /\ auth[9].digest = "hex"
            /\ auth[9].message[1] = "TC3-HMAC-SHA256"
            /\ auth[9].message[2] = signing[k].timestamp
            /\ auth[9].message[3] = auth[5]
            /\ auth[9].key = [key |-> [key |-> [key |-> <<"TC3", signing[k].secretKey>>,
                                                message |-> date, digest |-> "binary"],
                                        message |-> "hunyuan", digest |-> "binary"],
                               message |-> "tc3_request", digest |-> "binary"]

C18_Witness ==
    /\ Len(signed) = 2
    /\ signing[1].timestamp = 951782400
    /\ signed[1].Authorization[5][1] = <<2000, "-", 0, 2, "-", 2, 9>>
    /\ signing[2].timestamp = 1709251199
    /\ signed[2].Authorization[5][1] = <<2024, "-", 0, 2, "-", 2, 9>>

====
